---- MODULE Spec2Model ----
(***************************************************************************)
(* LogExplain: the rule-based log interpretation engine.                   *)
(*                                                                         *)
(* Strings are TLA+ strings; a character is a string of length 1.  The     *)
(* JavaScript string and RegExp operations the engine relies on            *)
(* (toLowerCase, includes, trim, String.prototype.match, RegExp.test,      *)
(* String.prototype.replace with a string pattern) are defined below by    *)
(* what they compute.  A regular expression is a small syntax tree that is *)
(* interpreted by a backtracking matcher with JavaScript's priorities      *)
(* (leftmost start, alternatives in order, greedy quantifiers).            *)
(***************************************************************************)
EXTENDS Integers, Sequences, FiniteSets, TLC

\* ------------------------------------------------------------------------
\* Characters and strings
\* ------------------------------------------------------------------------

UpperLetters == "ABCDEFGHIJKLMNOPQRSTUVWXYZ"

LowerLetters == "abcdefghijklmnopqrstuvwxyz"

Digits == "0123456789"

CharAt(s, i) == SubSeq(s, i, i)

CharsOf(s) == {CharAt(s, i) : i \in 1..Len(s)}

UpperSet ==
    {"A", "B", "C", "D", "E", "F", "G", "H", "I", "J", "K", "L", "M", "N", "O", "P", "Q", "R", "S", "T", "U", "V", "W", "X", "Y", "Z"}

LowerSet ==
    {"a", "b", "c", "d", "e", "f", "g", "h", "i", "j", "k", "l", "m", "n", "o", "p", "q", "r", "s", "t", "u", "v", "w", "x", "y", "z"}

DigitSet == {"0", "1", "2", "3", "4", "5", "6", "7", "8", "9"}

\* \w of a JavaScript regular expression: [A-Za-z0-9_]
WordSet ==
    {"A", "B", "C", "D", "E", "F", "G", "H", "I", "J", "K", "L", "M", "N", "O", "P", "Q", "R", "S", "T", "U", "V", "W", "X", "Y", "Z"}
    \cup {"a", "b", "c", "d", "e", "f", "g", "h", "i", "j", "k", "l", "m", "n", "o", "p", "q", "r", "s", "t", "u", "v", "w", "x", "y", "z"}
    \cup {"0", "1", "2", "3", "4", "5", "6", "7", "8", "9", "_"}

\* \s: the white space of the modelled alphabet
SpaceSet == {" ", "\t", "\n", "\r"}

\* the line terminators, which . does not match
LineTerminators == {"\n", "\r"}

IndexIn(alphabet, c) == CHOOSE k \in 1..Len(alphabet) : CharAt(alphabet, k) = c

LowerOf == [c \in UpperSet |-> CharAt(LowerLetters, IndexIn(UpperLetters, c))]

UpperOf == [c \in LowerSet |-> CharAt(UpperLetters, IndexIn(LowerLetters, c))]

LowerChar(c) == IF c \in UpperSet THEN LowerOf[c] ELSE c

UpperChar(c) == IF c \in LowerSet THEN UpperOf[c] ELSE c

\* (the recursions on strings split the string in halves to keep them shallow)
RECURSIVE toLowerCase(_)
toLowerCase(s) ==
    IF Len(s) = 0 THEN ""
    ELSE IF Len(s) = 1 THEN LowerChar(s)
    ELSE toLowerCase(SubSeq(s, 1, Len(s) \div 2)) \o toLowerCase(SubSeq(s, Len(s) \div 2 + 1, Len(s)))

RECURSIVE toUpperCase(_)
toUpperCase(s) ==
    IF Len(s) = 0 THEN ""
    ELSE IF Len(s) = 1 THEN UpperChar(s)
    ELSE toUpperCase(SubSeq(s, 1, Len(s) \div 2)) \o toUpperCase(SubSeq(s, Len(s) \div 2 + 1, Len(s)))

\* Math.min, Math.max of two numbers
MinOf(a, b) == IF a <= b THEN a ELSE b

MaxOf(a, b) == IF a >= b THEN a ELSE b

SetMin(S) == CHOOSE m \in S : \A n \in S : m <= n

SetMax(S) == CHOOSE m \in S : \A n \in S : m >= n

\* First index (1-based) at or after position from where needle occurs in s, 0 if none.
MinOrZero(hits) == IF hits = {} THEN 0 ELSE SetMin(hits)

IndexOfFrom(s, needle, from) ==
    MinOrZero({k \in from..(Len(s) - Len(needle) + 1) : SubSeq(s, k, k + Len(needle) - 1) = needle})

\* String.prototype.includes
includes(s, needle) == IndexOfFrom(s, needle, 1) > 0

\* String.prototype.replace(pattern: string, replacement): first occurrence only
ReplaceAt(s, k, len, by) ==
    IF k = 0 THEN s ELSE SubSeq(s, 1, k - 1) \o by \o SubSeq(s, k + len, Len(s))

replaceFirst(s, needle, by) == ReplaceAt(s, IndexOfFrom(s, needle, 1), Len(needle), by)

\* String.prototype.trim
Spanning(s, keep) == IF keep = {} THEN "" ELSE SubSeq(s, SetMin(keep), SetMax(keep))

trim(s) == Spanning(s, {k \in 1..Len(s) : CharAt(s, k) \notin SpaceSet})

\* String.prototype.substring(0, n)
substring0(s, n) == IF Len(s) <= n THEN s ELSE SubSeq(s, 1, n)

\* ------------------------------------------------------------------------
\* Regular expressions
\* ------------------------------------------------------------------------

\* a literal
Lit(str) == [t |-> "lit", s |-> str]

Cls(chars) == [t |-> "cls", cs |-> chars, neg |-> FALSE]

NotCls(chars) == [t |-> "cls", cs |-> chars, neg |-> TRUE]

AnyChar == [t |-> "any"]

Cat(nodes) == [t |-> "seq", xs |-> nodes]

Alt(nodes) == [t |-> "alt", xs |-> nodes]

\* the numbers of the capturing groups inside a node
RECURSIVE GroupsIn(_)
RECURSIVE GroupsInAll(_, _)
GroupsInAll(nodes, n) ==
    IF n = 0 THEN {} ELSE GroupsInAll(nodes, n - 1) \cup GroupsIn(nodes[n])

GroupsIn(node) ==
    CASE node.t = "grp" -> {node.k} \cup GroupsIn(node.x)
      [] node.t \in {"seq", "alt"} -> GroupsInAll(node.xs, Len(node.xs))
      [] node.t = "rep" -> node.gs
      [] OTHER -> {}

\* greedy repetition {min,max}; max = -1 is unbounded; gs are the capturing groups
\* of the repeated node, which every iteration resets
Rep(node, min, max) ==
    [t |-> "rep", x |-> node, min |-> min, max |-> max, greedy |-> TRUE, gs |-> GroupsIn(node)]

\* lazy repetition {min,max}?
Lazy(node, min, max) ==
    [t |-> "rep", x |-> node, min |-> min, max |-> max, greedy |-> FALSE, gs |-> GroupsIn(node)]

Star(node) == Rep(node, 0, -1)

Plus(node) == Rep(node, 1, -1)

Opt(node) == Rep(node, 0, 1)

\* capturing group number k
Grp(k, node) == [t |-> "grp", k |-> k, x |-> node]

WordBoundary == [t |-> "wb"]

LineStart == [t |-> "bol"]

Digit == Cls(DigitSet)

Space == Cls(SpaceSet)

NonSpace == NotCls(SpaceSet)

WordChar == Cls(WordSet)

\* a regular expression literal /source/flags
RegExp(node, ignoreCase) == [re |-> node, i |-> ignoreCase]

MaxGroups == 3

NoCaptures == [k \in 1..MaxGroups |-> <<0, 0>>]

IsWordAt(s, i) == i >= 1 /\ i <= Len(s) /\ CharAt(s, i) \in WordSet

CharMatches(c, node, ic) ==
    (c \in node.cs \/ (ic /\ (LowerChar(c) \in node.cs \/ UpperChar(c) \in node.cs))) # node.neg

\* under the i flag the subject s has been lower-cased by match
LitMatches(s, i, node, ic) ==
    /\ i + Len(node.s) - 1 <= Len(s)
    /\ SubSeq(s, i, i + Len(node.s) - 1) = (IF ic THEN toLowerCase(node.s) ELSE node.s)

(* All the ways node can match s starting at position i, in the matcher's  *)
(* order of preference: a sequence of [e |-> position after the match,     *)
(* c |-> captures].  The first element is the match a backtracking engine   *)
(* finds first.  With ic (the i flag) s is the lower-cased subject.         *)
RECURSIVE MatchNode(_, _, _, _, _)
RECURSIVE MatchSeq(_, _, _, _, _, _)
RECURSIVE MatchAlt(_, _, _, _, _, _)
RECURSIVE MatchRep(_, _, _, _, _, _)
RECURSIVE ThenSeq(_, _, _, _, _, _, _)
RECURSIVE ThenRep(_, _, _, _, _, _, _, _)

One(e, caps) == <<[e |-> e, c |-> caps]>>

\* the results inner of group k opened at i, each with the group's capture recorded
Capture(inner, k, i) ==
    [j \in 1..Len(inner) |-> [e |-> inner[j].e, c |-> [inner[j].c EXCEPT ![k] = <<i, inner[j].e>>]]]

MatchNode(node, s, i, caps, ic) ==
    CASE node.t = "lit" -> IF LitMatches(s, i, node, ic) THEN One(i + Len(node.s), caps) ELSE <<>>
      [] node.t = "cls" ->
           IF i <= Len(s) /\ CharMatches(CharAt(s, i), node, ic) THEN One(i + 1, caps) ELSE <<>>
      [] node.t = "any" ->
           IF i <= Len(s) /\ CharAt(s, i) \notin LineTerminators THEN One(i + 1, caps) ELSE <<>>
      [] node.t = "wb" -> IF IsWordAt(s, i - 1) # IsWordAt(s, i) THEN One(i, caps) ELSE <<>>
      [] node.t = "bol" -> IF i = 1 THEN One(i, caps) ELSE <<>>
      [] node.t = "seq" -> MatchSeq(node.xs, 1, s, i, caps, ic)
      [] node.t = "alt" -> MatchAlt(node.xs, 1, s, i, caps, ic)
      [] node.t = "rep" -> MatchRep(node, 0, s, i, caps, ic)
      [] node.t = "grp" -> Capture(MatchNode(node.x, s, i, caps, ic), node.k, i)

\* continue the sequence xs from element k after each of the results rs[lo..hi], in order
ThenSeq(rs, lo, hi, xs, k, s, ic) ==
    IF lo > hi THEN <<>>
    ELSE IF lo = hi THEN MatchSeq(xs, k, s, rs[lo].e, rs[lo].c, ic)
    ELSE ThenSeq(rs, lo, (lo + hi) \div 2, xs, k, s, ic)
         \o ThenSeq(rs, (lo + hi) \div 2 + 1, hi, xs, k, s, ic)

AfterEach(rs, xs, k, s, ic) == ThenSeq(rs, 1, Len(rs), xs, k, s, ic)

MatchSeq(xs, k, s, i, caps, ic) ==
    IF k > Len(xs) THEN One(i, caps)
    ELSE AfterEach(MatchNode(xs[k], s, i, caps, ic), xs, k + 1, s, ic)

MatchAlt(xs, k, s, i, caps, ic) ==
    IF k > Len(xs) THEN <<>>
    ELSE MatchNode(xs[k], s, i, caps, ic) \o MatchAlt(xs, k + 1, s, i, caps, ic)

\* one more iteration after each of the results rs[lo..hi] of iteration number count
\* from i; once the minimum was reached before the iteration, a result that consumed
\* no input is dropped (RepeatMatcher: min = 0 and y's endIndex = x's endIndex)
ThenRep(rs, lo, hi, node, count, s, i, ic) ==
    IF lo > hi THEN <<>>
    ELSE IF lo = hi
         THEN (IF rs[lo].e > i \/ count <= node.min
               THEN MatchRep(node, count, s, rs[lo].e, rs[lo].c, ic) ELSE <<>>)
    ELSE ThenRep(rs, lo, (lo + hi) \div 2, node, count, s, i, ic)
         \o ThenRep(rs, (lo + hi) \div 2 + 1, hi, node, count, s, i, ic)

Again(rs, node, count, s, i, ic) == ThenRep(rs, 1, Len(rs), node, count, s, i, ic)

FirstStop(stops, end) == IF stops = {} THEN end ELSE SetMin(stops)

\* the position after the longest run of characters matching the one-character node from i
RunEnd(node, s, i, ic) ==
    FirstStop({k \in i..Len(s) : ~(IF node.t = "any" THEN CharAt(s, k) \notin LineTerminators
                                    ELSE CharMatches(CharAt(s, k), node, ic))},
              Len(s) + 1)

\* the results of a repeated single character that may take min..most characters from i
RunResults(node, most, i, caps) ==
    IF most < node.min THEN <<>>
    ELSE [r \in 1..(most - node.min + 1) |->
            [e |-> IF node.greedy THEN i + most - r + 1 ELSE i + node.min + r - 1, c |-> caps]]

AtMost(max, run) == IF max = -1 \/ run < max THEN run ELSE max

InOrder(greedy, more, stop) == IF greedy THEN more \o stop ELSE stop \o more

\* the captures an iteration starts with: those of the groups in gs are undefined
ResetCaptures(caps, gs) ==
    IF gs = {} THEN caps ELSE [k \in 1..MaxGroups |-> IF k \in gs THEN <<0, 0>> ELSE caps[k]]

MatchRep(node, count, s, i, caps, ic) ==
    IF count = 0 /\ node.x.t \in {"cls", "any"}
    THEN \* a repeated single character: greedy tries the longest run first, then each
         \* shorter one; lazy tries the shortest first
         RunResults(node, AtMost(node.max, RunEnd(node.x, s, i, ic) - i), i, caps)
    ELSE InOrder(node.greedy,
                 Again(IF node.max = -1 \/ count < node.max
                       THEN MatchNode(node.x, s, i, ResetCaptures(caps, node.gs), ic) ELSE <<>>,
                       node, count + 1, s, i, ic),
                 IF count >= node.min THEN One(i, caps) ELSE <<>>)

NoMatch == [found |-> FALSE, index |-> 0, end |-> 0, c |-> NoCaptures]

\* the match object of the preferred result of rs, found at start k
FirstResult(rs, k) ==
    IF rs # <<>> THEN [found |-> TRUE, index |-> k, end |-> rs[1].e, c |-> rs[1].c] ELSE NoMatch

\* the literal every match of node begins with, "" when the node does not fix one
RECURSIVE LiteralPrefix(_, _)
LiteralPrefix(node, ic) ==
    CASE node.t = "lit" -> (IF ic THEN toLowerCase(node.s) ELSE node.s)
      [] node.t = "seq" -> (IF Len(node.xs) = 0 THEN "" ELSE LiteralPrefix(node.xs[1], ic))
      [] node.t = "grp" -> LiteralPrefix(node.x, ic)
      [] OTHER -> ""

\* the starts in lo..hi worth trying: when every match begins with a literal, only
\* the places where that literal occurs
Starts(prefix, s, lo, hi) ==
    IF prefix = "" THEN lo..hi
    ELSE {k \in lo..MinOf(hi, Len(s) - Len(prefix) + 1) : SubSeq(s, k, k + Len(prefix) - 1) = prefix}

\* the match of regex at the leftmost of the starts in lo..hi, trying each in turn
RECURSIVE ExecScan(_, _, _, _, _)
ElseScan(left, regex, s, starts, lo, hi) ==
    IF left.found THEN left ELSE ExecScan(regex, s, starts, lo, hi)

ExecScan(regex, s, starts, lo, hi) ==
    IF (starts \cap (lo..hi)) = {} THEN NoMatch
    ELSE IF lo = hi THEN FirstResult(MatchNode(regex.re, s, lo, NoCaptures, regex.i), lo)
    ELSE ElseScan(ExecScan(regex, s, starts, lo, (lo + hi) \div 2),
                regex, s, starts, (lo + hi) \div 2 + 1, hi)

\* RegExp.prototype.exec without the g flag, on the starts lo..hi
ExecIn(regex, s, lo, hi) ==
    ExecScan(regex, s, Starts(LiteralPrefix(regex.re, regex.i), s, lo, hi), lo, hi)

\* String.prototype.match(regex) for a regex without the g flag
match(s, regex) == ExecIn(regex, IF regex.i THEN toLowerCase(s) ELSE s, 1, Len(s) + 1)

\* RegExp.prototype.test
test(regex, s) == match(s, regex).found

\* match[0]
Matched(s, m) == SubSeq(s, m.index, m.end - 1)

\* match[k]; "" stands for undefined (a group that did not take part)
Group(s, m, k) == IF m.c[k] = <<0, 0>> THEN "" ELSE SubSeq(s, m.c[k][1], m.c[k][2] - 1)

\* [...new Set(items)]: the first occurrence of every value, in order
RECURSIVE Unique(_, _)
Unique(items, n) ==
    IF n = 0 THEN <<>>
    ELSE LET front == Unique(items, n - 1)
         IN IF \E k \in 1..(n - 1) : items[k] = items[n] THEN front ELSE Append(front, items[n])

\* Array.prototype.flatMap over sequences of sequences
RECURSIVE Flatten(_, _)
Flatten(lists, n) ==
    IF n = 0 THEN <<>> ELSE Flatten(lists, n - 1) \o lists[n]

\* ------------------------------------------------------------------------
\* State
\*
\* The engine is synchronous: one call is served at a time.  The only state
\* that outlives a call is the pattern registry, a singleton built when the
\* module is loaded.  The rules are objects shared by reference: the
\* registry holds them by id.
\* ------------------------------------------------------------------------

VARIABLES
    pc,            \* "idle": no call in progress; "call": req is about to be served;
                   \* "return": resp is its result
    req,           \* the operation called and its arguments
    resp,          \* the value returned
    patterns,      \* patternRegistry.patterns: the rules, by id, in registration order
    keywordIndex,  \* patternRegistry.keywordIndex: a Map from a keyword to rules
    probe,         \* history: an explainLog call and what it returned the first time
    memo,          \* what the pure steps of the pipeline return on the sample lines
    apiKeys,       \* the Supabase service: its client, the rows of api_keys of one user
    handlers       \* the API-key requests of that user being served, each with its position

vars == <<pc, req, resp, patterns, keywordIndex, probe, memo, apiKeys, handlers>>

NoRequest == [op |-> "none"]

NoResponse == [none |-> TRUE]

NoProbe == [none |-> TRUE]

\* the engine's specifications leave the API-key service aside: no client, no row, no
\* request
KeyServiceAtRest ==
    apiKeys = [configured |-> FALSE, rows |-> {}, inserted |-> 0] /\ handlers = <<>>

(* A definition is evaluated anew at every use.  The memo holds results of  *)
(* parseLogLine, of the confidence computation and of calculateSeverity     *)
(* computed once, in the initial state, and is never changed; a             *)
(* specification that starts with the empty memo computes them on the spot. *)
NoMemo == [parse |-> [l \in {} |-> l], confidence |-> [l \in {} |-> l], severity |-> [l \in {} |-> l]]

(* probe names an explainLog call.  probe.step is 0 until the call is made  *)
(* for the first time, 1 once it has returned (probe.explanation is what it *)
(* returned), 2 once some other call has been served after it, and 3 once   *)
(* the call has been repeated after that.  Another call notes itself:       *)
NoteOtherCall ==
    probe' = IF probe # NoProbe /\ probe.step = 1 THEN [probe EXCEPT !.step = 2] ELSE probe

\* all sequences over S of length at most n
SeqsUpTo(S, n) == UNION {[1..k -> S] : k \in 0..n}

\* the log lines the engine is run on: lines of the unit tests and of the
\* documentation, and lines chosen for the cases the rules distinguish
SampleLines ==
    { "",
      " ",
      "x",
      "2026-02-11T10:30:00Z ERROR Connection refused to database at 10.0.1.5:5432",
      "2026-02-11T10:30:00Z ERROR ECONNREFUSED 127.0.0.1:5432",
      "2026-02-11T10:30:00Z ERROR [database] FATAL: password authentication failed for user \"admin\"",
      "2026-02-11T10:30:02Z ERROR Request timeout on /api/v1/users after 30000ms",
      "2026-02-11T10:30:00-08:00 ERROR Request timeout on /api/v1/users after 30000ms",
      "2026-02-11T10:30:03Z CRITICAL 503 Service Unavailable - upstream server not responding",
      "2026-02-11T10:31:00Z ERROR: ENOSPC: no space left on device",
      "503 Service Unavailable - upstream server not responding",
      "Connection refused to 10.0.0.1:3306",
      "ENOSPC: no space left on device",
      "ERROR: ECONNREFUSED 127.0.0.1:5432",
      "ERROR: ECONNREFUSED 127.0.0.1:5432 could not connect to database",
      "ERROR: disk full",
      "Error: ENOENT: no such file or directory",
      "Error: UNABLE_TO_VERIFY_LEAF_SIGNATURE",
      "Error: getaddrinfo ENOTFOUND api.example.com",
      "Error: listen EADDRINUSE: address already in use :::3000",
      "Error: read ECONNRESET",
      "FATAL: out of memory",
      "FATAL: out of memory, JavaScript heap out of memory",
      "FATAL: password authentication failed for user \"admin\"",
      "WARN: disk space low",
      "connect ETIMEDOUT 10.0.0.1:443",
      "segmentation fault (core dumped)",
      "out of memory error in process",
      "2026-02-11 10:30:00 ERROR something failed",
      "2026-02-11T10:30:00+05:30 ERROR something failed",
      "2026-02-11T10:30:00.123Z ERROR something failed",
      "2026-02-11T10:30:05Z WARN disk usage at 95%",
      "2026-02-11T10:32:00Z ERROR: third event",
      "Feb 11 10:30:00 myhost nginx[12345]: error occurred",
      "ALERT: security breach detected",
      "CRITICAL: system failure",
      "DEBUG: query executed in 5ms",
      "EMERGENCY: system is unusable",
      "ERROR in production database",
      "ERROR: bind failed port=8080",
      "ERROR: something went wrong",
      "FATAL: crash",
      "GET /api/v1/users 200 OK",
      "INFO: server started",
      "NOTICE: scheduled maintenance",
      "Something completely random and unknown happened",
      "TRACE: entering function",
      "WARNING in staging",
      "ERROR hello",
      "verbose output enabled",
      "EADDRINUSE ECONNRESET",
      "ENOENT ENOMEM",
      "EPIPE throttling",
      "OOMKilled evicted",
      "ECONNRESET unhandled exception",
      "ENOMEM EPIPE",
      "DLQ NaN date",
      "2026-02-11T10:31:00Z ERROR: ENOSPC: no space left on device ",
      "Error Code:  1205 while updating orders in production, retrying",
      "ERROR: ECONNREFUSED 10.0.0.2:3306 in production",
      "repeated connection reset by peer from 10.0.0.7",
      "Failed password for root from 192.168.1.50 port 22 ssh2",
      "multiple ECONNRESET errors, possible outage" }
\* ------------------------------------------------------------------------
\* Rule Base (knowledge-base/patterns/*.patterns.ts)
\*
\* Each rule is the LogPattern object of the source; an optional array that the
\* source leaves out (errorCodes, severityModifiers) is the empty sequence, which
\* the loops over it treat alike.  The em dash (U+2014) of the source texts is
\* written ~ : module text is ASCII, and no other modelled text contains ~.
\* ------------------------------------------------------------------------

DB_CONN_REFUSED ==
    [id |-> "DB_CONN_REFUSED",
     name |-> "Database Connection Refused",
     category |-> "database",
     patterns |-> << RegExp(Cat(<<Lit("connection"), Plus(Space), Lit("refused"), Star(AnyChar), Alt(<<Lit("5432"), Lit("3306"), Lit("27017"), Lit("6379"), Lit("1433")>>)>>), TRUE),
                     RegExp(Cat(<<Lit("ECONNREFUSED"), Star(AnyChar), Alt(<<Lit("5432"), Lit("3306"), Lit("27017"), Lit("6379"), Lit("1433")>>)>>), TRUE),
                     RegExp(Cat(<<Lit("ECONNREFUSED"), Star(AnyChar), Alt(<<Lit("postgres"), Lit("mysql"), Lit("mongo"), Lit("redis"), Lit("mssql")>>)>>), TRUE),
                     RegExp(Cat(<<Lit("could"), Plus(Space), Lit("not"), Plus(Space), Lit("connect"), Plus(Space), Lit("to"), Plus(Space), Alt(<<Lit("server"), Lit("database")>>)>>), TRUE),
                     RegExp(Cat(<<Lit("connection"), Plus(Space), Lit("to"), Plus(Space), Star(AnyChar), Plus(Space), Lit("refused")>>), TRUE) >>,
     keywords |-> << "connection refused",
                     "ECONNREFUSED",
                     "could not connect" >>,
     errorCodes |-> << "ECONNREFUSED",
                       "CR_CONN_HOST_ERROR" >>,
     severity |-> "HIGH",
     severityModifiers |-> << [condition |-> RegExp(Alt(<<Lit("production"), Lit("prod")>>), TRUE),
                               severity |-> "CRITICAL",
                               reason |-> "Database connection failure in production environment"] >>,
     explanation |->
        [summary |-> "The application failed to establish a connection to the database server. The database is either not running, unreachable, or rejecting connections on the specified port.",
         rootCause |-> "The database service is unreachable ~ it may be stopped, crashed, or blocked by a firewall.",
         possibleCauses |-> << "Database service is not running or has crashed",
                               "Firewall or security group blocking the database port",
                               "Incorrect host or port in database connection string",
                               "Database server is overloaded and refusing new connections",
                               "Network partition between application and database servers",
                               "Database max connections limit reached" >>,
         recommendedFixes |-> << "Verify the database service is running: systemctl status postgresql / mysql",
                                 "Check the connection string (host, port, credentials) in your config",
                                 "Ensure firewall rules allow traffic on the database port",
                                 "Check database max_connections setting and current active connections",
                                 "Test network connectivity: telnet <db_host> <db_port>",
                                 "Review database server logs for crash or startup errors" >>]]

DB_TIMEOUT ==
    [id |-> "DB_TIMEOUT",
     name |-> "Database Query Timeout",
     category |-> "database",
     patterns |-> << RegExp(Cat(<<Lit("query"), Plus(Space), Lit("time"), Opt(Lit("d")), Star(Space), Lit("out")>>), TRUE),
                     RegExp(Cat(<<Lit("statement"), Plus(Space), Lit("timeout")>>), TRUE),
                     RegExp(Cat(<<Lit("lock"), Plus(Space), Lit("wait"), Plus(Space), Lit("timeout"), Plus(Space), Lit("exceeded")>>), TRUE),
                     RegExp(Cat(<<Lit("canceling"), Plus(Space), Lit("statement"), Plus(Space), Lit("due"), Plus(Space), Lit("to"), Plus(Space), Lit("statement"), Plus(Space), Lit("timeout")>>), TRUE),
                     RegExp(Cat(<<Lit("Error"), Plus(Space), Lit("Code:"), Star(Space), Lit("1205")>>), TRUE) >>,
     keywords |-> << "query timeout",
                     "statement timeout",
                     "lock wait timeout" >>,
     errorCodes |-> << "1205",
                       "57014" >>,
     severity |-> "HIGH",
     severityModifiers |-> <<>>,
     explanation |->
        [summary |-> "A database query exceeded its maximum allowed execution time and was terminated. This typically indicates a slow query, missing indexes, or a deadlock.",
         rootCause |-> "The query took longer than the configured timeout threshold, likely due to inefficient query execution or resource contention.",
         possibleCauses |-> << "Missing or inefficient database indexes on queried columns",
                               "Full table scan on a large table",
                               "Deadlock or lock contention between concurrent transactions",
                               "Database server under heavy load or resource exhaustion",
                               "Complex query with multiple JOINs on large datasets",
                               "Insufficient server resources (CPU, memory, I/O)" >>,
         recommendedFixes |-> << "Run EXPLAIN/EXPLAIN ANALYZE on the slow query to identify bottlenecks",
                                 "Add appropriate indexes on frequently queried columns",
                                 "Optimize the query to reduce complexity (avoid SELECT *, use LIMIT)",
                                 "Increase the statement timeout if the query is legitimately long-running",
                                 "Check for deadlocks in the database logs",
                                 "Consider query caching or materialized views for complex reports" >>]]

DB_AUTH_FAILED ==
    [id |-> "DB_AUTH_FAILED",
     name |-> "Database Authentication Failed",
     category |-> "database",
     patterns |-> << RegExp(Cat(<<Lit("password"), Plus(Space), Lit("authentication"), Plus(Space), Lit("failed")>>), TRUE),
                     RegExp(Cat(<<Lit("access"), Plus(Space), Lit("denied"), Plus(Space), Lit("for"), Plus(Space), Lit("user")>>), TRUE),
                     RegExp(Cat(<<Lit("authentication"), Plus(Space), Lit("failed"), Star(AnyChar), Lit("database")>>), TRUE),
                     RegExp(Cat(<<Lit("Login"), Plus(Space), Lit("failed"), Plus(Space), Lit("for"), Plus(Space), Lit("user")>>), TRUE),
                     RegExp(Cat(<<Lit("FATAL:"), Plus(Space), Lit("password"), Plus(Space), Lit("authentication"), Plus(Space), Lit("failed"), Plus(Space), Lit("for"), Plus(Space), Lit("user")>>), TRUE) >>,
     keywords |-> << "authentication failed",
                     "access denied",
                     "login failed",
                     "password" >>,
     errorCodes |-> << "28P01",
                       "1045",
                       "18456" >>,
     severity |-> "HIGH",
     severityModifiers |-> <<>>,
     explanation |->
        [summary |-> "The database rejected the connection because the supplied username or password is incorrect. The application cannot authenticate with the database.",
         rootCause |-> "Invalid credentials provided in the database connection configuration.",
         possibleCauses |-> << "Incorrect password in connection string or environment variable",
                               "Database user does not exist",
                               "Password was recently changed but not updated in app config",
                               "Database authentication method mismatch (e.g., md5 vs scram-sha-256)",
                               "User lacks required privileges for the target database",
                               "Host-based authentication rules (pg_hba.conf) reject the connection" >>,
         recommendedFixes |-> << "Verify database credentials in your environment/config files",
                                 "Test login manually: psql -U <user> -h <host> <database>",
                                 "Reset the database user password if unsure",
                                 "Check pg_hba.conf (PostgreSQL) or user grants (MySQL) for access rules",
                                 "Ensure the user has CONNECT privilege on the target database",
                                 "Verify the authentication method matches what the client supports" >>]]

DB_POOL_EXHAUSTED ==
    [id |-> "DB_POOL_EXHAUSTED",
     name |-> "Database Connection Pool Exhausted",
     category |-> "database",
     patterns |-> << RegExp(Cat(<<Lit("connection"), Plus(Space), Lit("pool"), Plus(Space), Alt(<<Lit("exhausted"), Lit("full"), Lit("maxed"), Lit("saturated")>>)>>), TRUE),
                     RegExp(Cat(<<Lit("too"), Plus(Space), Lit("many"), Plus(Space), Lit("connections")>>), TRUE),
                     RegExp(Cat(<<Lit("remaining"), Plus(Space), Lit("connection"), Plus(Space), Lit("slots"), Plus(Space), Lit("are"), Plus(Space), Lit("reserved")>>), TRUE),
                     RegExp(Cat(<<Lit("FATAL:"), Plus(Space), Lit("too"), Plus(Space), Lit("many"), Plus(Space), Lit("connections")>>), TRUE),
                     RegExp(Lit("max_connections"), TRUE) >>,
     keywords |-> << "connection pool",
                     "too many connections",
                     "pool exhausted" >>,
     errorCodes |-> << "53300" >>,
     severity |-> "CRITICAL",
     severityModifiers |-> <<>>,
     explanation |->
        [summary |-> "The database connection pool has reached its maximum capacity. New connection requests are being rejected, which will cause application errors and downtime.",
         rootCause |-> "All available database connections are in use, and no connections can be allocated for new requests.",
         possibleCauses |-> << "Connection leak ~ connections not being returned to the pool",
                               "Sudden traffic spike exhausting the connection pool",
                               "Pool size configured too low for current workload",
                               "Long-running transactions holding connections for too long",
                               "Multiple application instances sharing the same pool limit",
                               "Database max_connections setting is too restrictive" >>,
         recommendedFixes |-> << "Review and increase pool size (poolMin/poolMax) settings",
                                 "Audit code for connection leaks (unreleased connections)",
                                 "Use connection pool monitoring to track utilization",
                                 "Implement connection timeout and idle connection reaping",
                                 "Consider using PgBouncer or ProxySQL for connection pooling",
                                 "Increase database max_connections if server resources allow" >>]]

DB_REPLICATION_LAG ==
    [id |-> "DB_REPLICATION_LAG",
     name |-> "Database Replication Lag",
     category |-> "database",
     patterns |-> << RegExp(Cat(<<Lit("replication"), Plus(Space), Lit("lag")>>), TRUE),
                     RegExp(Cat(<<Lit("slave"), Plus(Space), Opt(Cat(<<Lit("is"), Plus(Space)>>)), Lit("behind"), Plus(Space), Lit("master")>>), TRUE),
                     RegExp(Cat(<<Lit("replica"), Star(AnyChar), Lit("behind")>>), TRUE),
                     RegExp(Cat(<<Lit("Seconds_Behind_Master:"), Star(Space), Plus(Digit)>>), TRUE) >>,
     keywords |-> << "replication lag",
                     "slave behind",
                     "replica behind" >>,
     errorCodes |-> <<>>,
     severity |-> "MEDIUM",
     severityModifiers |-> << [condition |-> RegExp(Cat(<<Lit("lag"), Star(AnyChar), Alt(<<Rep(Digit, 3, -1), Lit("seconds")>>)>>), TRUE),
                               severity |-> "HIGH",
                               reason |-> "Replication lag exceeds acceptable threshold"] >>,
     explanation |->
        [summary |-> "The database replica is falling behind the primary server. Data read from replicas may be stale, which can cause inconsistencies in read operations.",
         rootCause |-> "The replica cannot keep up with the rate of writes on the primary database.",
         possibleCauses |-> << "Heavy write workload on the primary server",
                               "Network latency between primary and replica",
                               "Replica server has insufficient CPU/IO resources",
                               "Large transactions or DDL operations blocking replication",
                               "Disk I/O bottleneck on the replica" >>,
         recommendedFixes |-> << "Monitor replication lag metrics continuously",
                                 "Scale up replica server resources (CPU, memory, faster disks)",
                                 "Optimize write-heavy queries on the primary",
                                 "Consider parallel replication for multi-threaded apply",
                                 "Route time-sensitive reads to the primary temporarily",
                                 "Break large transactions into smaller batches" >>]]

databasePatterns ==
    << DB_CONN_REFUSED, DB_TIMEOUT, DB_AUTH_FAILED, DB_POOL_EXHAUSTED,
       DB_REPLICATION_LAG >>

NET_CONN_TIMEOUT ==
    [id |-> "NET_CONN_TIMEOUT",
     name |-> "Network Connection Timeout",
     category |-> "network",
     patterns |-> << RegExp(Lit("ETIMEDOUT"), TRUE),
                     RegExp(Cat(<<Lit("connection"), Plus(Space), Lit("time"), Opt(Lit("d")), Star(Space), Lit("out")>>), TRUE),
                     RegExp(Cat(<<Lit("connect"), Plus(Space), Lit("ETIMEDOUT")>>), TRUE),
                     RegExp(Cat(<<Lit("network"), Plus(Space), Lit("timeout")>>), TRUE),
                     RegExp(Cat(<<Lit("socket"), Plus(Space), Lit("timeout")>>), TRUE) >>,
     keywords |-> << "ETIMEDOUT",
                     "connection timeout",
                     "socket timeout" >>,
     errorCodes |-> << "ETIMEDOUT" >>,
     severity |-> "HIGH",
     severityModifiers |-> <<>>,
     explanation |->
        [summary |-> "A network connection attempt to a remote host timed out. The target server did not respond within the allowed time window.",
         rootCause |-> "The remote host is unreachable or too slow to respond within the timeout period.",
         possibleCauses |-> << "Remote server is down or unreachable",
                               "Firewall blocking outbound or inbound traffic on the target port",
                               "DNS resolution returning incorrect IP address",
                               "Network congestion or packet loss along the route",
                               "Timeout value set too low for the expected response time",
                               "Target service overloaded and not accepting connections" >>,
         recommendedFixes |-> << "Test connectivity to the target host: ping / traceroute / curl",
                                 "Verify firewall and security group rules allow the connection",
                                 "Check DNS resolution: nslookup / dig for the target hostname",
                                 "Increase the connection timeout value if appropriate",
                                 "Contact the remote service operator to verify service health",
                                 "Implement retry logic with exponential backoff" >>]]

NET_DNS_FAILURE ==
    [id |-> "NET_DNS_FAILURE",
     name |-> "DNS Resolution Failure",
     category |-> "dns",
     patterns |-> << RegExp(Lit("ENOTFOUND"), TRUE),
                     RegExp(Cat(<<Lit("getaddrinfo"), Plus(Space), Lit("ENOTFOUND")>>), TRUE),
                     RegExp(Cat(<<Lit("DNS"), Star(AnyChar), Alt(<<Lit("fail"), Lit("error"), Lit("timeout")>>)>>), TRUE),
                     RegExp(Cat(<<Lit("name"), Plus(Space), Lit("resolution"), Star(AnyChar), Lit("failed")>>), TRUE),
                     RegExp(Cat(<<Lit("could"), Plus(Space), Lit("not"), Plus(Space), Lit("resolve"), Plus(Space), Lit("host")>>), TRUE),
                     RegExp(Lit("NXDOMAIN"), TRUE) >>,
     keywords |-> << "ENOTFOUND",
                     "DNS",
                     "name resolution",
                     "getaddrinfo" >>,
     errorCodes |-> << "ENOTFOUND",
                       "NXDOMAIN" >>,
     severity |-> "HIGH",
     severityModifiers |-> <<>>,
     explanation |->
        [summary |-> "The system failed to resolve a hostname to an IP address via DNS. The requested domain name could not be found.",
         rootCause |-> "DNS lookup failed ~ the hostname does not exist, DNS servers are unreachable, or there is a misconfiguration.",
         possibleCauses |-> << "Hostname is misspelled in the configuration",
                               "Domain name does not exist or has expired",
                               "DNS server is down or unreachable",
                               "Network partitioning preventing DNS queries",
                               "DNS cache poisoning or stale cached records",
                               "/etc/resolv.conf or OS DNS settings misconfigured" >>,
         recommendedFixes |-> << "Verify the hostname spelling in your configuration",
                                 "Test DNS resolution manually: nslookup <hostname> or dig <hostname>",
                                 "Check /etc/resolv.conf (Linux) or network DNS settings",
                                 "Try using a public DNS server (8.8.8.8) temporarily to isolate the issue",
                                 "Flush DNS cache: systemd-resolve --flush-caches / ipconfig /flushdns",
                                 "Verify the domain is registered and not expired" >>]]

NET_CONN_RESET ==
    [id |-> "NET_CONN_RESET",
     name |-> "Connection Reset by Peer",
     category |-> "network",
     patterns |-> << RegExp(Lit("ECONNRESET"), TRUE),
                     RegExp(Cat(<<Lit("connection"), Plus(Space), Lit("reset"), Plus(Space), Lit("by"), Plus(Space), Lit("peer")>>), TRUE),
                     RegExp(Cat(<<Lit("read"), Plus(Space), Lit("ECONNRESET")>>), TRUE),
                     RegExp(Cat(<<Lit("broken"), Plus(Space), Lit("pipe")>>), TRUE),
                     RegExp(Lit("EPIPE"), TRUE) >>,
     keywords |-> << "ECONNRESET",
                     "connection reset",
                     "broken pipe",
                     "EPIPE" >>,
     errorCodes |-> << "ECONNRESET",
                       "EPIPE" >>,
     severity |-> "MEDIUM",
     severityModifiers |-> << [condition |-> RegExp(Alt(<<Lit("repeated"), Lit("multiple"), Lit("frequent")>>), TRUE),
                               severity |-> "HIGH",
                               reason |-> "Frequent connection resets indicate a systemic issue"] >>,
     explanation |->
        [summary |-> "The remote server forcibly closed the connection while data was being transferred. This is an abrupt termination, not a graceful disconnect.",
         rootCause |-> "The peer terminated the TCP connection unexpectedly, possibly due to a crash, timeout, or load balancer eviction.",
         possibleCauses |-> << "Remote server crashed or restarted during the request",
                               "Load balancer terminated an idle or long-running connection",
                               "Server-side timeout or max request size exceeded",
                               "TLS/SSL handshake failure causing abrupt disconnect",
                               "Network device (proxy/firewall) dropping long-lived connections",
                               "Server resource exhaustion forcing connection termination" >>,
         recommendedFixes |-> << "Implement retry logic with exponential backoff for transient failures",
                                 "Check the remote server's health and error logs",
                                 "Review load balancer timeout and keepalive settings",
                                 "Ensure request payloads are within server-side size limits",
                                 "Use HTTP keep-alive headers correctly",
                                 "Monitor connection reset frequency to identify patterns" >>]]

NET_SSL_ERROR ==
    [id |-> "NET_SSL_ERROR",
     name |-> "SSL/TLS Handshake Error",
     category |-> "ssl_tls",
     patterns |-> << RegExp(Cat(<<Lit("SSL"), Star(AnyChar), Alt(<<Lit("handshake"), Lit("error"), Lit("fail")>>)>>), TRUE),
                     RegExp(Cat(<<Lit("TLS"), Star(AnyChar), Alt(<<Lit("handshake"), Lit("error"), Lit("fail")>>)>>), TRUE),
                     RegExp(Cat(<<Lit("certificate"), Star(AnyChar), Alt(<<Lit("expired"), Lit("invalid"), Lit("untrusted"), Lit("verify")>>)>>), TRUE),
                     RegExp(Lit("UNABLE_TO_VERIFY_LEAF_SIGNATURE"), TRUE),
                     RegExp(Lit("CERT_HAS_EXPIRED"), TRUE),
                     RegExp(Lit("DEPTH_ZERO_SELF_SIGNED_CERT"), TRUE),
                     RegExp(Lit("ERR_TLS_CERT_ALTNAME_INVALID"), TRUE),
                     RegExp(Cat(<<Lit("self"), Cls(SpaceSet \cup {"-"}), Lit("signed"), Plus(Space), Lit("certificate")>>), TRUE) >>,
     keywords |-> << "SSL",
                     "TLS",
                     "certificate",
                     "handshake",
                     "self-signed" >>,
     errorCodes |-> << "UNABLE_TO_VERIFY_LEAF_SIGNATURE",
                       "CERT_HAS_EXPIRED",
                       "DEPTH_ZERO_SELF_SIGNED_CERT",
                       "ERR_TLS_CERT_ALTNAME_INVALID" >>,
     severity |-> "HIGH",
     severityModifiers |-> << [condition |-> RegExp(Lit("expired"), TRUE),
                               severity |-> "CRITICAL",
                               reason |-> "Expired certificate will break all HTTPS connections"] >>,
     explanation |->
        [summary |-> "A TLS/SSL connection could not be established due to a certificate problem. The secure connection was rejected.",
         rootCause |-> "The SSL/TLS certificate is invalid, expired, self-signed, or does not match the expected hostname.",
         possibleCauses |-> << "SSL certificate has expired and not been renewed",
                               "Self-signed certificate used in a production environment",
                               "Certificate does not match the domain (CN/SAN mismatch)",
                               "Missing intermediate CA certificate in the chain",
                               "TLS version or cipher suite mismatch between client and server",
                               "System CA certificate bundle is outdated" >>,
         recommendedFixes |-> << "Check certificate expiry: openssl s_client -connect <host>:443",
                                 "Renew the expired certificate via your CA or Let's Encrypt",
                                 "Ensure the full certificate chain (including intermediates) is installed",
                                 "Verify the certificate covers the correct hostname (CN/SAN)",
                                 "Update the system CA certificates: update-ca-certificates",
                                 "Do NOT disable TLS validation in production (NODE_TLS_REJECT_UNAUTHORIZED=0)" >>]]

NET_PORT_IN_USE ==
    [id |-> "NET_PORT_IN_USE",
     name |-> "Port Already in Use",
     category |-> "network",
     patterns |-> << RegExp(Lit("EADDRINUSE"), TRUE),
                     RegExp(Cat(<<Lit("address"), Plus(Space), Lit("already"), Plus(Space), Lit("in"), Plus(Space), Lit("use")>>), TRUE),
                     RegExp(Cat(<<Lit("port"), Star(AnyChar), Lit("already"), Plus(Space), Alt(<<Cat(<<Lit("in"), Plus(Space), Lit("use")>>), Lit("bound"), Lit("taken")>>)>>), TRUE),
                     RegExp(Cat(<<Lit("bind"), Star(AnyChar), Lit("EADDRINUSE")>>), TRUE) >>,
     keywords |-> << "EADDRINUSE",
                     "address in use",
                     "port in use" >>,
     errorCodes |-> << "EADDRINUSE" >>,
     severity |-> "MEDIUM",
     severityModifiers |-> <<>>,
     explanation |->
        [summary |-> "The application failed to start because the requested port is already being used by another process.",
         rootCause |-> "Another process is already listening on the same port, preventing this application from binding.",
         possibleCauses |-> << "A previous instance of the application is still running",
                               "Another service is using the same port",
                               "Application crashed without releasing the port (lingering socket)",
                               "Docker container or VM still holding the port",
                               "OS-level port reservation conflict" >>,
         recommendedFixes |-> << "Find the process using the port: lsof -i :<port> (Linux) or netstat -ano | findstr :<port> (Windows)",
                                 "Kill the conflicting process or change your application port",
                                 "Wait for TIME_WAIT socket state to expire (or enable SO_REUSEADDR)",
                                 "Check for zombie processes: ps aux | grep <app_name>",
                                 "Use a different port via environment configuration" >>]]

networkPatterns ==
    << NET_CONN_TIMEOUT, NET_DNS_FAILURE, NET_CONN_RESET, NET_SSL_ERROR,
       NET_PORT_IN_USE >>

AUTH_LOGIN_FAILED ==
    [id |-> "AUTH_LOGIN_FAILED",
     name |-> "Authentication Login Failed",
     category |-> "authentication",
     patterns |-> << RegExp(Cat(<<Lit("authentication"), Plus(Space), Lit("fail")>>), TRUE),
                     RegExp(Cat(<<Lit("login"), Plus(Space), Lit("fail")>>), TRUE),
                     RegExp(Cat(<<Lit("invalid"), Plus(Space), Alt(<<Lit("credentials"), Lit("username"), Lit("password")>>)>>), TRUE),
                     RegExp(Cat(<<Lit("unauthorized"), Star(AnyChar), Lit("login")>>), TRUE),
                     RegExp(Cat(<<Lit("failed"), Plus(Space), Lit("password"), Plus(Space), Lit("for")>>), TRUE),
                     RegExp(Cat(<<Lit("pam_unix"), Star(AnyChar), Lit("authentication"), Plus(Space), Lit("failure")>>), TRUE) >>,
     keywords |-> << "login failed",
                     "authentication failure",
                     "invalid credentials",
                     "failed password" >>,
     errorCodes |-> <<>>,
     severity |-> "MEDIUM",
     severityModifiers |-> << [condition |-> RegExp(Alt(<<Lit("repeated"), Lit("multiple"), Lit("brute"), Lit("consecutive")>>), TRUE),
                               severity |-> "CRITICAL",
                               reason |-> "Repeated login failures indicate a potential brute-force attack"],
                              [condition |-> RegExp(Alt(<<Lit("root"), Lit("admin"), Lit("administrator")>>), TRUE),
                               severity |-> "HIGH",
                               reason |-> "Failed login attempt on a privileged account"] >>,
     explanation |->
        [summary |-> "A user authentication attempt failed. The supplied credentials were rejected by the system.",
         rootCause |-> "The provided username or password does not match any valid account in the system.",
         possibleCauses |-> << "Incorrect password entered by the user",
                               "Account does not exist in the system",
                               "Account is locked, disabled, or expired",
                               "Brute-force attack if failures are repeated from the same or multiple IPs",
                               "Password policy change requiring updated credentials",
                               "LDAP/SSO backend is unreachable" >>,
         recommendedFixes |-> << "Check if the user account exists and is active",
                                 "Review login failure frequency for brute-force indicators",
                                 "Implement account lockout after N failed attempts",
                                 "Enable Multi-Factor Authentication (MFA) for sensitive accounts",
                                 "Check authentication backend (LDAP, database, SSO) connectivity",
                                 "Implement rate limiting on login endpoints" >>]]

AUTH_TOKEN_EXPIRED ==
    [id |-> "AUTH_TOKEN_EXPIRED",
     name |-> "JWT/Session Token Expired",
     category |-> "authentication",
     patterns |-> << RegExp(Cat(<<Lit("token"), Star(AnyChar), Lit("expired")>>), TRUE),
                     RegExp(Cat(<<Lit("jwt"), Star(AnyChar), Lit("expired")>>), TRUE),
                     RegExp(Cat(<<Lit("session"), Star(AnyChar), Lit("expired")>>), TRUE),
                     RegExp(Lit("TokenExpiredError"), TRUE),
                     RegExp(Cat(<<Lit("invalid"), Star(AnyChar), Lit("token")>>), TRUE),
                     RegExp(Cat(<<Lit("token"), Star(AnyChar), Lit("invalid")>>), TRUE) >>,
     keywords |-> << "token expired",
                     "JWT",
                     "session expired",
                     "TokenExpiredError" >>,
     errorCodes |-> << "TokenExpiredError" >>,
     severity |-> "LOW",
     severityModifiers |-> << [condition |-> RegExp(Alt(<<Cat(<<Lit("service"), Cls(SpaceSet \cup {"-"}), Lit("to"), Cls(SpaceSet \cup {"-"}), Lit("service")>>), Lit("machine"), Lit("internal")>>), TRUE),
                               severity |-> "HIGH",
                               reason |-> "Service-to-service token expiration can cause cascading failures"] >>,
     explanation |->
        [summary |-> "An authentication token (JWT or session) has expired and is no longer valid. The client must re-authenticate to obtain a new token.",
         rootCause |-> "The token's expiration time (exp claim) has passed, invalidating the session.",
         possibleCauses |-> << "Token TTL is too short for the use case",
                               "Client is not refreshing tokens before expiry",
                               "Clock skew between servers causing premature expiration",
                               "User session deliberately timed out for security",
                               "Refresh token is also expired (no valid way to renew)" >>,
         recommendedFixes |-> << "Implement token refresh logic in the client application",
                                 "Adjust token TTL to match the expected session duration",
                                 "Synchronize server clocks using NTP",
                                 "Implement sliding window sessions for active users",
                                 "Return clear 401 responses with a \"token_expired\" error code" >>]]

AUTH_PERMISSION_DENIED ==
    [id |-> "AUTH_PERMISSION_DENIED",
     name |-> "Permission/Authorization Denied",
     category |-> "authorization",
     patterns |-> << RegExp(Cat(<<Lit("permission"), Plus(Space), Lit("denied")>>), TRUE),
                     RegExp(Cat(<<Lit("access"), Plus(Space), Lit("denied")>>), TRUE),
                     RegExp(Lit("forbidden"), TRUE),
                     RegExp(Cat(<<Lit("not"), Plus(Space), Lit("authorized")>>), TRUE),
                     RegExp(Cat(<<Lit("insufficient"), Plus(Space), Alt(<<Lit("privileges"), Lit("permissions")>>)>>), TRUE),
                     RegExp(Lit("EACCES"), TRUE),
                     RegExp(Cat(<<Lit("HTTP"), Plus(Space), Lit("403")>>), TRUE),
                     RegExp(Cat(<<Lit("403"), Plus(Space), Lit("Forbidden")>>), TRUE) >>,
     keywords |-> << "permission denied",
                     "access denied",
                     "forbidden",
                     "403",
                     "EACCES" >>,
     errorCodes |-> << "EACCES",
                       "403" >>,
     severity |-> "MEDIUM",
     severityModifiers |-> << [condition |-> RegExp(Alt(<<Lit("admin"), Lit("root"), Lit("system"), Lit("superuser")>>), TRUE),
                               severity |-> "HIGH",
                               reason |-> "Permission denial on privileged resources is security-relevant"] >>,
     explanation |->
        [summary |-> "An operation was blocked because the user or process lacks the required permissions. The authentication succeeded, but authorization failed.",
         rootCause |-> "The authenticated identity does not have the necessary role or permission to access the requested resource.",
         possibleCauses |-> << "User role does not include the required permission",
                               "Resource-level access control (ACL) blocking the request",
                               "File system permissions preventing read/write/execute",
                               "API endpoint requires elevated privileges",
                               "RBAC policy recently changed, revoking access",
                               "Service account missing required IAM/role bindings" >>,
         recommendedFixes |-> << "Verify the user's role and permissions in the access control system",
                                 "Grant the necessary permission via RBAC/IAM if appropriate",
                                 "Check file ownership and permissions: ls -la / icacls",
                                 "Review recent permission or role policy changes",
                                 "Use the principle of least privilege ~ grant only what is needed",
                                 "Audit authorization failures for potential security incidents" >>]]

AUTH_BRUTE_FORCE ==
    [id |-> "AUTH_BRUTE_FORCE",
     name |-> "Brute Force Attack Detected",
     category |-> "security",
     patterns |-> << RegExp(Cat(<<Lit("brute"), Opt(Cls(SpaceSet \cup {"-"})), Lit("force")>>), TRUE),
                     RegExp(Cat(<<Lit("too"), Plus(Space), Lit("many"), Plus(Space), Opt(Cat(<<Lit("failed"), Plus(Space)>>)), Alt(<<Lit("login"), Lit("auth")>>), Plus(Space), Lit("attempts")>>), TRUE),
                     RegExp(Cat(<<Lit("account"), Plus(Space), Lit("locked"), Star(AnyChar), Alt(<<Lit("failed"), Lit("attempts")>>)>>), TRUE),
                     RegExp(Cat(<<Lit("rate"), Plus(Space), Lit("limit"), Star(AnyChar), Alt(<<Lit("auth"), Lit("login")>>)>>), TRUE),
                     RegExp(Cat(<<Lit("multiple"), Plus(Space), Lit("failed"), Plus(Space), Lit("login")>>), TRUE) >>,
     keywords |-> << "brute force",
                     "account locked",
                     "too many attempts",
                     "failed login attempts" >>,
     errorCodes |-> <<>>,
     severity |-> "CRITICAL",
     severityModifiers |-> <<>>,
     explanation |->
        [summary |-> "Multiple rapid, failed login attempts were detected, indicating a potential brute-force attack against user accounts.",
         rootCause |-> "An automated system or attacker is systematically guessing credentials to gain unauthorized access.",
         possibleCauses |-> << "Active brute-force attack from a malicious actor",
                               "Credential stuffing using leaked password databases",
                               "Misconfigured automated system retrying with wrong credentials",
                               "Password spray attack across multiple accounts",
                               "Bot traffic targeting the login endpoint" >>,
         recommendedFixes |-> << "Block the offending IP addresses immediately",
                                 "Enable account lockout after 5 failed attempts",
                                 "Implement CAPTCHA on the login page after 3 failures",
                                 "Deploy Web Application Firewall (WAF) rules",
                                 "Enable Multi-Factor Authentication (MFA) organization-wide",
                                 "Monitor and alert on abnormal login failure rates",
                                 "Review access logs for additional indicators of compromise" >>]]

authPatterns ==
    << AUTH_LOGIN_FAILED, AUTH_TOKEN_EXPIRED, AUTH_PERMISSION_DENIED, AUTH_BRUTE_FORCE >>

SYS_OOM ==
    [id |-> "SYS_OOM",
     name |-> "Out of Memory (OOM)",
     category |-> "memory",
     patterns |-> << RegExp(Cat(<<Lit("out"), Plus(Space), Lit("of"), Plus(Space), Lit("memory")>>), TRUE),
                     RegExp(Cat(<<Lit("OOM"), Star(Space), Alt(<<Lit("killer"), Lit("kill")>>)>>), TRUE),
                     RegExp(Cat(<<Lit("cannot"), Plus(Space), Lit("allocate"), Plus(Space), Lit("memory")>>), TRUE),
                     RegExp(Lit("ENOMEM"), TRUE),
                     RegExp(Cat(<<Lit("heap"), Plus(Space), Lit("out"), Plus(Space), Lit("of"), Plus(Space), Lit("memory")>>), TRUE),
                     RegExp(Cat(<<Lit("JavaScript"), Plus(Space), Lit("heap"), Plus(Space), Lit("out"), Plus(Space), Lit("of"), Plus(Space), Lit("memory")>>), TRUE),
                     RegExp(Lit("java.lang.OutOfMemoryError"), TRUE),
                     RegExp(Lit("MemoryError"), TRUE),
                     RegExp(Cat(<<Lit("fatal"), Plus(Space), Lit("error"), Star(AnyChar), Lit("allocation"), Plus(Space), Lit("failed")>>), TRUE) >>,
     keywords |-> << "out of memory",
                     "OOM",
                     "ENOMEM",
                     "heap",
                     "MemoryError" >>,
     errorCodes |-> << "ENOMEM" >>,
     severity |-> "CRITICAL",
     severityModifiers |-> <<>>,
     explanation |->
        [summary |-> "The system or application ran out of available memory. The OS may have terminated the process (OOM killer) or the application crashed due to heap exhaustion.",
         rootCause |-> "Memory consumption exceeded the available physical or allocated heap memory.",
         possibleCauses |-> << "Memory leak in the application (objects not being garbage collected)",
                               "Processing a dataset too large to fit in memory",
                               "Insufficient server memory for the workload",
                               "Too many concurrent processes/requests consuming memory",
                               "Container memory limit set too low",
                               "Java/Node.js heap size not configured for the workload" >>,
         recommendedFixes |-> << "Profile memory usage to identify leaks (e.g., node --inspect, VisualVM)",
                                 "Increase available memory or container memory limits",
                                 "For Node.js: increase heap with --max-old-space-size=4096",
                                 "For Java: increase heap with -Xmx and -Xms JVM flags",
                                 "Implement pagination or streaming for large data processing",
                                 "Review and fix memory leaks: unclosed connections, growing caches, event listener accumulation",
                                 "Set up memory usage alerts before OOM threshold is reached" >>]]

SYS_DISK_FULL ==
    [id |-> "SYS_DISK_FULL",
     name |-> "Disk Space Full",
     category |-> "disk",
     patterns |-> << RegExp(Cat(<<Lit("no"), Plus(Space), Lit("space"), Plus(Space), Lit("left"), Plus(Space), Lit("on"), Plus(Space), Lit("device")>>), TRUE),
                     RegExp(Cat(<<Lit("disk"), Plus(Space), Alt(<<Lit("full"), Cat(<<Lit("space"), Star(AnyChar), Alt(<<Lit("low"), Lit("critical"), Lit("exhausted")>>)>>)>>)>>), TRUE),
                     RegExp(Lit("ENOSPC"), TRUE),
                     RegExp(Cat(<<Lit("filesystem"), Star(AnyChar), Alt(<<Lit("full"), Lit("100%")>>)>>), TRUE),
                     RegExp(Cat(<<Lit("write"), Star(AnyChar), Lit("failed"), Star(AnyChar), Lit("no"), Plus(Space), Lit("space")>>), TRUE) >>,
     keywords |-> << "no space left",
                     "disk full",
                     "ENOSPC",
                     "filesystem full" >>,
     errorCodes |-> << "ENOSPC" >>,
     severity |-> "CRITICAL",
     severityModifiers |-> <<>>,
     explanation |->
        [summary |-> "The disk or filesystem has run out of available storage space. Write operations will fail until space is freed.",
         rootCause |-> "All available disk space on the target filesystem/partition has been consumed.",
         possibleCauses |-> << "Log files have grown excessively large without rotation",
                               "Temporary files accumulating without cleanup",
                               "Database data files consuming all available disk space",
                               "Application generating excessive output or cache files",
                               "Docker images/volumes consuming disk space",
                               "Large file uploads or backups exhausting storage" >>,
         recommendedFixes |-> << "Check disk usage: df -h (Linux) / Get-PSDrive (Windows)",
                                 "Find large files: du -sh /* --max-depth=2 or ncdu",
                                 "Implement log rotation using logrotate or similar tools",
                                 "Clean up old logs, temp files, and unused Docker images",
                                 "Expand the disk/volume if possible",
                                 "Set up disk usage monitoring and alerts at 80% threshold",
                                 "Move large data to a dedicated storage volume" >>]]

SYS_CPU_HIGH ==
    [id |-> "SYS_CPU_HIGH",
     name |-> "High CPU Utilization",
     category |-> "cpu",
     patterns |-> << RegExp(Cat(<<Lit("cpu"), Plus(Space), Alt(<<Lit("usage"), Lit("utilization")>>), Star(AnyChar), Alt(<<Lit("high"), Lit("100"), Cat(<<Lit("9"), Digit>>)>>)>>), TRUE),
                     RegExp(Cat(<<Lit("load"), Plus(Space), Lit("average"), Star(AnyChar), Alt(<<Lit("high"), Lit("critical")>>)>>), TRUE),
                     RegExp(Cat(<<Lit("cpu"), Star(AnyChar), Alt(<<Lit("spike"), Lit("overload"), Lit("throttl")>>)>>), TRUE),
                     RegExp(Cat(<<Lit("process"), Star(AnyChar), Lit("consuming"), Star(AnyChar), Lit("cpu")>>), TRUE) >>,
     keywords |-> << "CPU high",
                     "CPU usage",
                     "load average",
                     "CPU spike",
                     "CPU throttl" >>,
     errorCodes |-> <<>>,
     severity |-> "HIGH",
     severityModifiers |-> << [condition |-> RegExp(Alt(<<Lit("100%"), Lit("sustained"), Lit("prolonged")>>), TRUE),
                               severity |-> "CRITICAL",
                               reason |-> "Sustained 100% CPU will degrade all services on the host"] >>,
     explanation |->
        [summary |-> "CPU utilization has reached a very high level, potentially causing slow response times, timeouts, and degraded performance for all processes on the system.",
         rootCause |-> "One or more processes are consuming excessive CPU resources.",
         possibleCauses |-> << "Infinite loop or CPU-intensive computation in application code",
                               "Unoptimized database queries causing excessive server-side processing",
                               "Sudden traffic spike overwhelming the application",
                               "Background processes (backups, cron jobs) competing for CPU",
                               "Insufficient CPU capacity for the current workload",
                               "Cryptomining malware consuming CPU resources" >>,
         recommendedFixes |-> << "Identify the high-CPU process: top / htop / Task Manager",
                                 "Profile the application to find CPU-intensive code paths",
                                 "Optimize hot code paths and reduce computational complexity",
                                 "Scale horizontally (add more instances) or vertically (add more CPU)",
                                 "Schedule CPU-intensive background tasks during off-peak hours",
                                 "Implement request throttling to prevent traffic spikes from overloading",
                                 "Check for and remove any unauthorized processes (malware)" >>]]

SYS_PROCESS_CRASH ==
    [id |-> "SYS_PROCESS_CRASH",
     name |-> "Process Crash / Segmentation Fault",
     category |-> "process",
     patterns |-> << RegExp(Cat(<<Lit("segmentation"), Plus(Space), Lit("fault")>>), TRUE),
                     RegExp(Lit("segfault"), TRUE),
                     RegExp(Lit("SIGSEGV"), TRUE),
                     RegExp(Lit("SIGABRT"), TRUE),
                     RegExp(Cat(<<Lit("core"), Plus(Space), Lit("dumped")>>), TRUE),
                     RegExp(Cat(<<Lit("process"), Star(AnyChar), Alt(<<Lit("crash"), Lit("died"), Lit("terminated"), Lit("killed")>>)>>), TRUE),
                     RegExp(Cat(<<Lit("unhandled"), Plus(Space), Alt(<<Lit("exception"), Lit("error"), Lit("rejection")>>)>>), TRUE),
                     RegExp(Cat(<<Lit("fatal"), Plus(Space), Lit("error")>>), TRUE) >>,
     keywords |-> << "segfault",
                     "SIGSEGV",
                     "core dump",
                     "crash",
                     "fatal error",
                     "unhandled exception" >>,
     errorCodes |-> << "SIGSEGV",
                       "SIGABRT",
                       "SIGKILL" >>,
     severity |-> "CRITICAL",
     severityModifiers |-> <<>>,
     explanation |->
        [summary |-> "A process has crashed unexpectedly, potentially causing a complete service outage. A core dump may have been generated for debugging.",
         rootCause |-> "The process encountered a fatal error (memory violation, unhandled exception, or signal) that forced termination.",
         possibleCauses |-> << "Null pointer dereference or buffer overflow (native code)",
                               "Unhandled exception or promise rejection (managed code)",
                               "Stack overflow from deep recursion",
                               "OOM killer terminated the process (see SYS_OOM)",
                               "Corrupt application binary or shared library",
                               "Hardware failure (faulty RAM, disk errors)" >>,
         recommendedFixes |-> << "Check the core dump or crash report for the exact error location",
                                 "Review application logs immediately before the crash",
                                 "Set up process manager (PM2, systemd) for automatic restart",
                                 "Add global exception/rejection handlers in your application",
                                 "Run memory diagnostics: memtest86+ / Windows Memory Diagnostic",
                                 "Update dependencies and runtime to patch known crash bugs",
                                 "Implement graceful shutdown and health checks" >>]]

SYS_FILE_NOT_FOUND ==
    [id |-> "SYS_FILE_NOT_FOUND",
     name |-> "File or Directory Not Found",
     category |-> "filesystem",
     patterns |-> << RegExp(Cat(<<Lit("no"), Plus(Space), Lit("such"), Plus(Space), Lit("file"), Plus(Space), Lit("or"), Plus(Space), Lit("directory")>>), TRUE),
                     RegExp(Lit("ENOENT"), TRUE),
                     RegExp(Lit("FileNotFoundException"), TRUE),
                     RegExp(Cat(<<Lit("file"), Plus(Space), Lit("not"), Plus(Space), Lit("found")>>), TRUE),
                     RegExp(Cat(<<Lit("path"), Star(AnyChar), Alt(<<Cat(<<Lit("does"), Plus(Space), Lit("not"), Plus(Space), Lit("exist")>>), Cat(<<Lit("not"), Plus(Space), Lit("found")>>)>>)>>), TRUE) >>,
     keywords |-> << "ENOENT",
                     "file not found",
                     "no such file",
                     "FileNotFoundException" >>,
     errorCodes |-> << "ENOENT" >>,
     severity |-> "MEDIUM",
     severityModifiers |-> << [condition |-> RegExp(Alt(<<Lit("config"), Lit("env"), Lit(".env"), Lit("settings"), Cat(<<Lit("application."), Alt(<<Lit("yml"), Lit("properties")>>)>>)>>), TRUE),
                               severity |-> "HIGH",
                               reason |-> "Missing configuration file can prevent application startup"] >>,
     explanation |->
        [summary |-> "The application attempted to access a file or directory that does not exist at the specified path.",
         rootCause |-> "The referenced file path is incorrect, the file was not created, or it was deleted/moved.",
         possibleCauses |-> << "Incorrect file path in configuration or code",
                               "File was deleted, moved, or renamed",
                               "Volume or mount not attached (Docker, NFS)",
                               "Application running from an unexpected working directory",
                               "Missing build artifact (not compiled/built yet)",
                               "Environment-specific path not set correctly" >>,
         recommendedFixes |-> << "Verify the file exists at the expected path: ls / dir",
                                 "Check the working directory of the application process",
                                 "Use absolute paths instead of relative paths in configuration",
                                 "Ensure all required files are included in the deployment package",
                                 "Check Docker volume mounts if running in a container",
                                 "Verify file permissions allow read access" >>]]

systemPatterns ==
    << SYS_OOM, SYS_DISK_FULL, SYS_CPU_HIGH, SYS_PROCESS_CRASH, SYS_FILE_NOT_FOUND >>

API_RATE_LIMITED ==
    [id |-> "API_RATE_LIMITED",
     name |-> "API Rate Limit Exceeded",
     category |-> "api",
     patterns |-> << RegExp(Cat(<<Lit("rate"), Star(Space), Lit("limit"), Star(AnyChar), Lit("exceeded")>>), TRUE),
                     RegExp(Cat(<<Lit("429"), Plus(Space), Lit("Too"), Plus(Space), Lit("Many"), Plus(Space), Lit("Requests")>>), TRUE),
                     RegExp(Cat(<<Lit("HTTP"), Plus(Space), Lit("429")>>), TRUE),
                     RegExp(Lit("throttl"), TRUE),
                     RegExp(Cat(<<Lit("too"), Plus(Space), Lit("many"), Plus(Space), Lit("requests")>>), TRUE),
                     RegExp(Cat(<<Lit("quota"), Star(AnyChar), Lit("exceeded")>>), TRUE) >>,
     keywords |-> << "rate limit",
                     "429",
                     "too many requests",
                     "throttle",
                     "quota exceeded" >>,
     errorCodes |-> << "429" >>,
     severity |-> "MEDIUM",
     severityModifiers |-> << [condition |-> RegExp(Alt(<<Lit("payment"), Lit("billing"), Cat(<<Lit("critical"), Star(AnyChar), Lit("api")>>)>>), TRUE),
                               severity |-> "HIGH",
                               reason |-> "Rate limiting on critical business APIs impacts revenue"] >>,
     explanation |->
        [summary |-> "The API rejected the request because the client has exceeded the maximum allowed number of requests within the rate limit window.",
         rootCause |-> "The client is sending requests faster than the API's rate limit policy allows.",
         possibleCauses |-> << "Client sending too many requests in a short period",
                               "Missing or broken request throttling on the client side",
                               "Retry logic without backoff flooding the API",
                               "Rate limit tier too restrictive for the workload",
                               "Multiple clients sharing the same API key",
                               "Batch operation not using the bulk/batch endpoint" >>,
         recommendedFixes |-> << "Implement exponential backoff with jitter on retries",
                                 "Respect the Retry-After header in 429 responses",
                                 "Use batch/bulk endpoints instead of individual requests",
                                 "Cache responses to reduce redundant API calls",
                                 "Request a higher rate limit tier from the API provider",
                                 "Distribute requests across multiple API keys if allowed" >>]]

API_TIMEOUT ==
    [id |-> "API_TIMEOUT",
     name |-> "API Request Timeout",
     category |-> "timeout",
     patterns |-> << RegExp(Cat(<<Lit("request"), Plus(Space), Lit("time"), Opt(Lit("d")), Star(Space), Lit("out")>>), TRUE),
                     RegExp(Cat(<<Lit("gateway"), Plus(Space), Lit("time"), Opt(Cls(SpaceSet \cup {"-"})), Lit("out")>>), TRUE),
                     RegExp(Cat(<<Lit("504"), Plus(Space), Lit("Gateway"), Plus(Space), Lit("Time"), Opt(Cls(SpaceSet \cup {"-"})), Lit("out")>>), TRUE),
                     RegExp(Cat(<<Lit("HTTP"), Plus(Space), Lit("504")>>), TRUE),
                     RegExp(Cat(<<Lit("upstream"), Plus(Space), Lit("time"), Opt(Lit("d")), Star(Space), Lit("out")>>), TRUE),
                     RegExp(Cat(<<Lit("proxy"), Star(AnyChar), Lit("timeout")>>), TRUE) >>,
     keywords |-> << "request timeout",
                     "gateway timeout",
                     "504",
                     "upstream timeout" >>,
     errorCodes |-> << "504" >>,
     severity |-> "HIGH",
     severityModifiers |-> <<>>,
     explanation |->
        [summary |-> "An API request timed out before receiving a response. The upstream server or service was too slow to respond within the gateway's timeout window.",
         rootCause |-> "The upstream service processing the request exceeded the timeout threshold.",
         possibleCauses |-> << "Upstream service is overloaded or unresponsive",
                               "Slow database queries backing the API endpoint",
                               "Gateway/proxy timeout configured too low",
                               "Network latency between proxy and upstream service",
                               "Resource-intensive computation triggered by the request",
                               "Deadlock or thread starvation in the upstream service" >>,
         recommendedFixes |-> << "Check upstream service health and response times",
                                 "Increase gateway timeout if the operation is legitimately slow",
                                 "Optimize the slow upstream operation (query, computation)",
                                 "Implement async processing for long-running operations",
                                 "Add circuit breakers to prevent cascading timeouts",
                                 "Use request queuing and webhook callbacks for slow operations" >>]]

API_BAD_REQUEST ==
    [id |-> "API_BAD_REQUEST",
     name |-> "Bad Request / Validation Error",
     category |-> "api",
     patterns |-> << RegExp(Cat(<<Lit("400"), Plus(Space), Lit("Bad"), Plus(Space), Lit("Request")>>), TRUE),
                     RegExp(Cat(<<Lit("HTTP"), Plus(Space), Lit("400")>>), TRUE),
                     RegExp(Cat(<<Lit("validation"), Plus(Space), Alt(<<Lit("error"), Lit("fail")>>)>>), TRUE),
                     RegExp(Cat(<<Lit("invalid"), Plus(Space), Alt(<<Lit("request"), Lit("payload"), Lit("input"), Lit("parameter")>>)>>), TRUE),
                     RegExp(Cat(<<Lit("malformed"), Plus(Space), Alt(<<Lit("JSON"), Lit("request"), Lit("body")>>)>>), TRUE),
                     RegExp(Cat(<<Lit("SyntaxError"), Star(AnyChar), Lit("JSON")>>), TRUE) >>,
     keywords |-> << "400",
                     "bad request",
                     "validation error",
                     "invalid request",
                     "malformed JSON" >>,
     errorCodes |-> << "400" >>,
     severity |-> "LOW",
     severityModifiers |-> <<>>,
     explanation |->
        [summary |-> "The API request was rejected because the request body, parameters, or headers are malformed or fail validation rules.",
         rootCause |-> "The client sent a request that does not conform to the expected API schema.",
         possibleCauses |-> << "Missing required fields in the request body",
                               "Incorrect data types (string instead of number, etc.)",
                               "Malformed JSON syntax in the request body",
                               "Invalid enum value or out-of-range parameter",
                               "API version mismatch ~ client using outdated request format",
                               "Character encoding issues in the payload" >>,
         recommendedFixes |-> << "Review the API documentation for the correct request schema",
                                 "Validate request payloads before sending (client-side validation)",
                                 "Check Content-Type header is set to application/json",
                                 "Use API client libraries or SDKs that enforce correct types",
                                 "Log and inspect the exact request being sent",
                                 "Verify you are targeting the correct API version" >>]]

API_INTERNAL_ERROR ==
    [id |-> "API_INTERNAL_ERROR",
     name |-> "Internal Server Error",
     category |-> "application",
     patterns |-> << RegExp(Cat(<<Lit("500"), Plus(Space), Lit("Internal"), Plus(Space), Lit("Server"), Plus(Space), Lit("Error")>>), TRUE),
                     RegExp(Cat(<<Lit("HTTP"), Plus(Space), Lit("500")>>), TRUE),
                     RegExp(Cat(<<Lit("internal"), Plus(Space), Lit("server"), Plus(Space), Lit("error")>>), TRUE),
                     RegExp(Cat(<<Lit("unhandled"), Star(AnyChar), Alt(<<Lit("error"), Lit("exception")>>)>>), TRUE),
                     RegExp(Cat(<<Lit("unexpected"), Plus(Space), Lit("error")>>), TRUE) >>,
     keywords |-> << "500",
                     "internal server error",
                     "unhandled exception",
                     "unexpected error" >>,
     errorCodes |-> << "500" >>,
     severity |-> "HIGH",
     severityModifiers |-> << [condition |-> RegExp(Alt(<<Lit("repeated"), Lit("frequent"), Lit("multiple")>>), TRUE),
                               severity |-> "CRITICAL",
                               reason |-> "Recurring 500 errors indicate a systemic bug or infrastructure failure"] >>,
     explanation |->
        [summary |-> "The server encountered an unexpected error while processing the request. This is a server-side issue, not a client error.",
         rootCause |-> "An unhandled exception or unexpected condition occurred in the server application code.",
         possibleCauses |-> << "Unhandled exception in application business logic",
                               "Null reference or undefined variable access",
                               "Database connection failure during request processing",
                               "Dependency service (external API) returned unexpected data",
                               "Application deployment or configuration error",
                               "Corrupt application state or race condition" >>,
         recommendedFixes |-> << "Check server application logs for the full stack trace",
                                 "Add comprehensive error handling and try-catch blocks",
                                 "Set up error tracking (Sentry, Bugsnag, Datadog)",
                                 "Review recent deployments that may have introduced the bug",
                                 "Test the failing request in a staging environment",
                                 "Implement circuit breakers for external dependency calls" >>]]

API_SERVICE_UNAVAILABLE ==
    [id |-> "API_SERVICE_UNAVAILABLE",
     name |-> "Service Unavailable",
     category |-> "api",
     patterns |-> << RegExp(Cat(<<Lit("503"), Plus(Space), Lit("Service"), Plus(Space), Lit("Unavailable")>>), TRUE),
                     RegExp(Cat(<<Lit("HTTP"), Plus(Space), Lit("503")>>), TRUE),
                     RegExp(Cat(<<Lit("service"), Plus(Space), Lit("unavailable")>>), TRUE),
                     RegExp(Cat(<<Lit("server"), Plus(Space), Opt(Cat(<<Lit("is"), Plus(Space)>>)), Alt(<<Lit("down"), Lit("unavailable"), Lit("overloaded")>>)>>), TRUE),
                     RegExp(Cat(<<Lit("maintenance"), Plus(Space), Lit("mode")>>), TRUE) >>,
     keywords |-> << "503",
                     "service unavailable",
                     "server down",
                     "maintenance" >>,
     errorCodes |-> << "503" >>,
     severity |-> "CRITICAL",
     severityModifiers |-> <<>>,
     explanation |->
        [summary |-> "The service is currently unavailable ~ it may be overloaded, under maintenance, or experiencing a failure. Requests cannot be processed.",
         rootCause |-> "The server is unable to handle requests due to overload, maintenance, or a crash.",
         possibleCauses |-> << "Server is overloaded and cannot accept new requests",
                               "Planned maintenance window in effect",
                               "Application crash with no healthy instances available",
                               "Health checks failing, causing load balancer to remove all backends",
                               "Auto-scaling has not yet provisioned enough instances",
                               "Deployment in progress (rolling update)" >>,
         recommendedFixes |-> << "Check the Retry-After header for expected recovery time",
                                 "Verify server health and instance counts",
                                 "Scale up or out to handle current load",
                                 "Check deployment status ~ rolling updates may cause brief 503s",
                                 "Review health check configuration for false negatives",
                                 "Implement graceful degradation and circuit breakers" >>]]

API_CORS_ERROR ==
    [id |-> "API_CORS_ERROR",
     name |-> "CORS Policy Error",
     category |-> "api",
     patterns |-> << RegExp(Cat(<<Lit("CORS"), Star(AnyChar), Alt(<<Lit("error"), Lit("policy"), Lit("block")>>)>>), TRUE),
                     RegExp(Lit("Access-Control-Allow-Origin"), TRUE),
                     RegExp(Cat(<<Lit("cross"), Opt(Cls(SpaceSet \cup {"-"})), Lit("origin"), Star(AnyChar), Lit("block")>>), TRUE),
                     RegExp(Lit("No 'Access-Control-Allow-Origin' header"), TRUE),
                     RegExp(Cat(<<Lit("preflight"), Star(AnyChar), Lit("fail")>>), TRUE) >>,
     keywords |-> << "CORS",
                     "cross-origin",
                     "Access-Control-Allow-Origin",
                     "preflight" >>,
     errorCodes |-> <<>>,
     severity |-> "MEDIUM",
     severityModifiers |-> <<>>,
     explanation |->
        [summary |-> "The browser blocked a cross-origin request because the server's CORS policy does not allow it. This is a client-side security enforcement.",
         rootCause |-> "The server does not include the requesting origin in its Access-Control-Allow-Origin headers.",
         possibleCauses |-> << "Server CORS configuration does not include the client origin",
                               "Missing or incorrect Access-Control-Allow-Origin header",
                               "Preflight OPTIONS request failing or not handled",
                               "Wildcard (*) CORS not allowed with credentials",
                               "Proxy or CDN stripping CORS headers",
                               "API gateway not configured to pass CORS headers through" >>,
         recommendedFixes |-> << "Add the client origin to the server CORS allowed origins list",
                                 "Ensure OPTIONS preflight requests return correct CORS headers",
                                 "Set Access-Control-Allow-Methods and Access-Control-Allow-Headers",
                                 "If using credentials, specify exact origins (not wildcard *)",
                                 "Check reverse proxy (Nginx, API Gateway) CORS header configuration",
                                 "Use a CORS middleware in your framework (e.g., cors() in Express)" >>]]

apiPatterns ==
    << API_RATE_LIMITED, API_TIMEOUT, API_BAD_REQUEST, API_INTERNAL_ERROR,
       API_SERVICE_UNAVAILABLE, API_CORS_ERROR >>

CFG_ENV_MISSING ==
    [id |-> "CFG_ENV_MISSING",
     name |-> "Missing Environment Variable",
     category |-> "configuration",
     patterns |-> << RegExp(Cat(<<Alt(<<Lit("env"), Lit("environment")>>), Star(Space), Opt(Alt(<<Lit("var"), Lit("variable")>>)), Star(AnyChar), Alt(<<Lit("missing"), Cat(<<Lit("not"), Plus(Space), Lit("set")>>), Lit("undefined"), Cat(<<Lit("not"), Plus(Space), Lit("found")>>), Lit("required")>>)>>), TRUE),
                     RegExp(Cat(<<Lit("missing"), Plus(Space), Opt(Cat(<<Lit("required"), Plus(Space)>>)), Alt(<<Lit("env"), Lit("environment"), Lit("config")>>)>>), TRUE),
                     RegExp(Cat(<<Lit("undefined"), Star(AnyChar), Alt(<<Lit("env"), Lit("environment"), Lit("config"), Lit("process.env")>>)>>), TRUE),
                     RegExp(Cat(<<Lit("config"), Star(AnyChar), Alt(<<Cat(<<Lit("not"), Plus(Space), Lit("found")>>), Lit("missing"), Lit("required")>>)>>), TRUE) >>,
     keywords |-> << "environment variable",
                     "env missing",
                     "config not found",
                     "undefined env" >>,
     errorCodes |-> <<>>,
     severity |-> "HIGH",
     severityModifiers |-> <<>>,
     explanation |->
        [summary |-> "A required environment variable or configuration value is missing. The application may fail to start or behave incorrectly.",
         rootCause |-> "The deployment environment does not have a required configuration variable set.",
         possibleCauses |-> << ".env file not present or not loaded",
                               "Environment variable not set in the deployment platform (Docker, Kubernetes, PaaS)",
                               "Variable name misspelled in code or configuration",
                               "Config file not included in the deployment package",
                               "Environment-specific config not applied (dev vs prod)",
                               "Secrets manager (Vault, AWS Secrets Manager) not accessible" >>,
         recommendedFixes |-> << "Verify all required environment variables are set: printenv / echo $VAR",
                                 "Check the .env file exists and is loaded by the application",
                                 "Cross-reference with .env.example for required variables",
                                 "Set the variable in your deployment platform configuration",
                                 "Implement startup validation that fails fast on missing config",
                                 "Use a config validation library (e.g., Joi, zod) at boot time" >>]]

CFG_PORT_CONFLICT ==
    [id |-> "CFG_PORT_CONFLICT",
     name |-> "Port Configuration Conflict",
     category |-> "configuration",
     patterns |-> << RegExp(Cat(<<Lit("port"), Star(AnyChar), Alt(<<Lit("conflict"), Lit("mismatch"), Lit("incorrect")>>)>>), TRUE),
                     RegExp(Cat(<<Lit("listen"), Star(AnyChar), Alt(<<Lit("EACCES"), Lit("EADDRINUSE")>>)>>), TRUE),
                     RegExp(Cat(<<Lit("permission"), Plus(Space), Lit("denied"), Star(AnyChar), Lit("port")>>), TRUE) >>,
     keywords |-> << "port conflict",
                     "EACCES port",
                     "port permission" >>,
     errorCodes |-> << "EACCES" >>,
     severity |-> "MEDIUM",
     severityModifiers |-> <<>>,
     explanation |->
        [summary |-> "The application cannot bind to the configured port due to a conflict, permission issue, or misconfiguration.",
         rootCause |-> "The specified port is either in use, requires elevated privileges, or is misconfigured.",
         possibleCauses |-> << "Port below 1024 requires root/admin privileges",
                               "Another process already using the port (see NET_PORT_IN_USE)",
                               "Port number misconfigured in environment variables",
                               "Container port mapping conflict" >>,
         recommendedFixes |-> << "Use a port above 1024 to avoid privilege requirements",
                                 "Check and kill conflicting processes on the port",
                                 "Verify port configuration in .env and Docker Compose",
                                 "Grant the application CAP_NET_BIND_SERVICE capability if needed" >>]]

CFG_DEPENDENCY_ERROR ==
    [id |-> "CFG_DEPENDENCY_ERROR",
     name |-> "Module/Dependency Not Found",
     category |-> "application",
     patterns |-> << RegExp(Cat(<<Lit("cannot"), Plus(Space), Lit("find"), Plus(Space), Lit("module")>>), TRUE),
                     RegExp(Lit("MODULE_NOT_FOUND"), TRUE),
                     RegExp(Lit("ModuleNotFoundError"), TRUE),
                     RegExp(Cat(<<Lit("ImportError"), Star(AnyChar), Lit("No"), Plus(Space), Lit("module"), Plus(Space), Lit("named")>>), TRUE),
                     RegExp(Lit("ClassNotFoundException"), TRUE),
                     RegExp(Cat(<<Lit("require"), Star(AnyChar), Lit("not"), Plus(Space), Lit("found")>>), TRUE) >>,
     keywords |-> << "cannot find module",
                     "MODULE_NOT_FOUND",
                     "ImportError",
                     "dependency" >>,
     errorCodes |-> << "MODULE_NOT_FOUND" >>,
     severity |-> "HIGH",
     severityModifiers |-> <<>>,
     explanation |->
        [summary |-> "The application failed to load a required module or dependency. It cannot start or function correctly without it.",
         rootCause |-> "A required package is not installed, or the import path is incorrect.",
         possibleCauses |-> << "npm install / pip install was not run after adding a dependency",
                               "Package was removed from node_modules (corrupted installation)",
                               "Import path or module name is misspelled",
                               "Package version incompatibility",
                               "Monorepo workspace linking not configured correctly",
                               "Build/transpilation step skipped, missing compiled output" >>,
         recommendedFixes |-> << "Run the package manager install: npm install / pip install -r requirements.txt",
                                 "Delete node_modules/vendor and reinstall: rm -rf node_modules && npm install",
                                 "Verify the package is listed in package.json or requirements.txt",
                                 "Check for typos in the import statement",
                                 "Ensure the build step completes before running the application",
                                 "Verify package version compatibility with your runtime version" >>]]

configPatterns ==
    << CFG_ENV_MISSING, CFG_PORT_CONFLICT, CFG_DEPENDENCY_ERROR >>

K8S_POD_CRASHLOOP ==
    [id |-> "K8S_POD_CRASHLOOP",
     name |-> "Pod CrashLoopBackOff",
     category |-> "kubernetes",
     patterns |-> << RegExp(Lit("CrashLoopBackOff"), TRUE),
                     RegExp(Cat(<<Lit("Back-off"), Plus(Space), Lit("restarting"), Plus(Space), Lit("failed"), Plus(Space), Lit("container")>>), TRUE),
                     RegExp(Cat(<<Lit("back-off"), Star(AnyChar), Lit("restart")>>), TRUE),
                     RegExp(Cat(<<Lit("container"), Star(AnyChar), Lit("crash"), Star(AnyChar), Lit("loop")>>), TRUE) >>,
     keywords |-> << "CrashLoopBackOff",
                     "restart",
                     "back-off",
                     "pod crash" >>,
     errorCodes |-> <<>>,
     severity |-> "CRITICAL",
     severityModifiers |-> <<>>,
     explanation |->
        [summary |-> "A Kubernetes pod is stuck in a CrashLoopBackOff state ~ the container keeps crashing and Kubernetes is repeatedly restarting it with increasing delays.",
         rootCause |-> "The container process exits with a non-zero exit code immediately after starting, triggering Kubernetes restart policy.",
         possibleCauses |-> << "Application crashes on startup due to missing configuration or environment variables",
                               "Missing or inaccessible dependency (database, API, secret)",
                               "Incorrect container entrypoint or command",
                               "Insufficient memory causing OOM kills",
                               "Liveness probe failing immediately after startup",
                               "Application binary not found in the container image" >>,
         recommendedFixes |-> << "Check container logs: kubectl logs <pod-name> --previous",
                                 "Describe the pod to see events: kubectl describe pod <pod-name>",
                                 "Verify environment variables and ConfigMaps are correctly mounted",
                                 "Check if the container image tag exists and is pullable",
                                 "Increase memory/CPU resource limits if OOM killed",
                                 "Adjust liveness probe initialDelaySeconds to give the app time to start" >>]]

K8S_IMAGE_PULL_FAIL ==
    [id |-> "K8S_IMAGE_PULL_FAIL",
     name |-> "Image Pull Failed",
     category |-> "kubernetes",
     patterns |-> << RegExp(Lit("ImagePullBackOff"), TRUE),
                     RegExp(Lit("ErrImagePull"), TRUE),
                     RegExp(Cat(<<Lit("Failed"), Plus(Space), Lit("to"), Plus(Space), Lit("pull"), Plus(Space), Lit("image")>>), TRUE),
                     RegExp(Cat(<<Lit("image"), Star(AnyChar), Alt(<<Cat(<<Lit("not"), Plus(Space), Lit("found")>>), Cat(<<Lit("pull"), Plus(Space), Lit("error")>>)>>)>>), TRUE),
                     RegExp(Cat(<<Lit("repository"), Plus(Space), Lit("does"), Plus(Space), Lit("not"), Plus(Space), Lit("exist")>>), TRUE) >>,
     keywords |-> << "ImagePullBackOff",
                     "ErrImagePull",
                     "image pull",
                     "pull failed" >>,
     errorCodes |-> <<>>,
     severity |-> "HIGH",
     severityModifiers |-> <<>>,
     explanation |->
        [summary |-> "Kubernetes failed to pull the container image from the registry. The pod cannot start until the image is available.",
         rootCause |-> "The container image specified in the pod spec could not be downloaded from the container registry.",
         possibleCauses |-> << "Image tag does not exist in the registry",
                               "Registry authentication credentials are missing or expired",
                               "Private registry requires imagePullSecrets not configured in the pod spec",
                               "Network connectivity issue between the node and the registry",
                               "Image name has a typo",
                               "Registry rate limiting (Docker Hub) is blocking the pull" >>,
         recommendedFixes |-> << "Verify the image exists: docker pull <image>:<tag>",
                                 "Check imagePullSecrets are configured: kubectl get pod <name> -o yaml",
                                 "Ensure registry credentials are valid and not expired",
                                 "For Docker Hub rate limits, use authenticated pulls or a mirror",
                                 "Check node network connectivity to the container registry",
                                 "Use a specific image tag instead of :latest for reliability" >>]]

K8S_OOM_KILLED ==
    [id |-> "K8S_OOM_KILLED",
     name |-> "Container OOMKilled",
     category |-> "kubernetes",
     patterns |-> << RegExp(Lit("OOMKilled"), TRUE),
                     RegExp(Cat(<<Lit("container"), Star(AnyChar), Lit("killed"), Star(AnyChar), Lit("oom")>>), TRUE),
                     RegExp(Cat(<<Lit("memory"), Plus(Space), Lit("cgroup"), Plus(Space), Lit("out"), Plus(Space), Lit("of"), Plus(Space), Lit("memory")>>), TRUE),
                     RegExp(Cat(<<Lit("Killed"), Plus(Space), Lit("process"), Star(AnyChar), Lit("oom")>>), TRUE),
                     RegExp(Cat(<<Lit("exit"), Plus(Space), Lit("code"), Plus(Space), Lit("137")>>), TRUE) >>,
     keywords |-> << "OOMKilled",
                     "exit code 137",
                     "out of memory",
                     "cgroup",
                     "killed" >>,
     errorCodes |-> << "137" >>,
     severity |-> "CRITICAL",
     severityModifiers |-> <<>>,
     explanation |->
        [summary |-> "The container was killed by Kubernetes because it exceeded its memory limit. Exit code 137 indicates the process was terminated by SIGKILL from the OOM killer.",
         rootCause |-> "The container consumed more memory than the configured resource limit, triggering the Kubernetes OOM killer.",
         possibleCauses |-> << "Memory limit set too low for the workload",
                               "Memory leak in the application",
                               "Spike in traffic causing increased memory usage",
                               "Large objects cached in memory without eviction",
                               "JVM heap size exceeds container memory limit" >>,
         recommendedFixes |-> << "Increase memory limits: resources.limits.memory in the pod spec",
                                 "Profile the application for memory leaks",
                                 "For JVM apps, set -Xmx to 75% of the container memory limit",
                                 "Implement memory-efficient data processing (streaming vs. loading all)",
                                 "Add memory usage monitoring and alerts before hitting the limit",
                                 "Use Vertical Pod Autoscaler (VPA) to right-size resources" >>]]

K8S_NODE_NOT_READY ==
    [id |-> "K8S_NODE_NOT_READY",
     name |-> "Node NotReady",
     category |-> "kubernetes",
     patterns |-> << RegExp(Cat(<<Lit("node"), Star(AnyChar), Lit("NotReady")>>), TRUE),
                     RegExp(Lit("NodeNotReady"), TRUE),
                     RegExp(Cat(<<Lit("node"), Plus(Space), Lit("condition"), Star(AnyChar), Lit("Ready"), Star(AnyChar), Lit("False")>>), TRUE),
                     RegExp(Cat(<<Lit("kubelet"), Plus(Space), Lit("stopped"), Plus(Space), Lit("posting"), Plus(Space), Lit("node"), Plus(Space), Lit("status")>>), TRUE) >>,
     keywords |-> << "NotReady",
                     "NodeNotReady",
                     "node condition",
                     "kubelet" >>,
     errorCodes |-> <<>>,
     severity |-> "CRITICAL",
     severityModifiers |-> <<>>,
     explanation |->
        [summary |-> "A Kubernetes node has entered NotReady state. Pods on this node may be evicted and rescheduled to healthy nodes.",
         rootCause |-> "The kubelet on the node has stopped reporting its status to the API server, or the node has failed health checks.",
         possibleCauses |-> << "Kubelet process crashed or is unresponsive",
                               "Node ran out of disk space, memory, or PIDs",
                               "Network partition between the node and the control plane",
                               "Underlying VM/machine has crashed or been terminated",
                               "Docker/containerd runtime is unresponsive",
                               "Kernel panic or hardware failure" >>,
         recommendedFixes |-> << "SSH into the node and check kubelet status: systemctl status kubelet",
                                 "Check node resource pressure: kubectl describe node <node-name>",
                                 "Review kubelet logs: journalctl -u kubelet",
                                 "Verify network connectivity between the node and the API server",
                                 "Cordon and drain the node if it needs maintenance: kubectl drain <node>",
                                 "Replace the node if the underlying hardware has failed" >>]]

K8S_LIVENESS_FAIL ==
    [id |-> "K8S_LIVENESS_FAIL",
     name |-> "Liveness/Readiness Probe Failed",
     category |-> "kubernetes",
     patterns |-> << RegExp(Cat(<<Lit("Liveness"), Plus(Space), Lit("probe"), Plus(Space), Lit("failed")>>), TRUE),
                     RegExp(Cat(<<Lit("Readiness"), Plus(Space), Lit("probe"), Plus(Space), Lit("failed")>>), TRUE),
                     RegExp(Cat(<<Lit("probe"), Plus(Space), Lit("failed"), Star(AnyChar), Lit("HTTP"), Plus(Space), Lit("probe")>>), TRUE),
                     RegExp(Cat(<<Lit("Startup"), Plus(Space), Lit("probe"), Plus(Space), Lit("failed")>>), TRUE),
                     RegExp(Lit("Unhealthy"), TRUE) >>,
     keywords |-> << "liveness probe",
                     "readiness probe",
                     "health check",
                     "unhealthy" >>,
     errorCodes |-> <<>>,
     severity |-> "HIGH",
     severityModifiers |-> <<>>,
     explanation |->
        [summary |-> "A Kubernetes health probe (liveness, readiness, or startup) has failed. If liveness fails, the container will be restarted. If readiness fails, traffic will stop being routed to the pod.",
         rootCause |-> "The probe endpoint returned a non-success HTTP status, or the TCP/command check failed within the timeout.",
         possibleCauses |-> << "Application is overloaded and cannot respond to health checks in time",
                               "Health check endpoint has a bug or dependency on a slow service",
                               "Probe timeout is too short for the application startup time",
                               "Wrong port or path configured for the probe",
                               "Application deadlock preventing the health endpoint from responding" >>,
         recommendedFixes |-> << "Increase probe timeoutSeconds and failureThreshold",
                                 "Ensure the health endpoint is lightweight and has no external dependencies",
                                 "Add a startup probe with generous timing for slow-starting applications",
                                 "Verify probe port matches the containerPort",
                                 "Check application logs at the time of probe failures",
                                 "Separate liveness (is it running?) from readiness (can it serve traffic?)" >>]]

K8S_EVICTION ==
    [id |-> "K8S_EVICTION",
     name |-> "Pod Evicted",
     category |-> "kubernetes",
     patterns |-> << RegExp(Cat(<<Lit("pod"), Star(AnyChar), Lit("evict")>>), TRUE),
                     RegExp(Lit("Evicted"), TRUE),
                     RegExp(Cat(<<Lit("The"), Plus(Space), Lit("node"), Plus(Space), Lit("was"), Plus(Space), Lit("low"), Plus(Space), Lit("on"), Plus(Space), Lit("resource")>>), TRUE),
                     RegExp(Cat(<<Lit("eviction"), Star(AnyChar), Lit("threshold")>>), TRUE),
                     RegExp(Lit("DiskPressure"), TRUE),
                     RegExp(Lit("MemoryPressure"), TRUE),
                     RegExp(Lit("PIDPressure"), TRUE) >>,
     keywords |-> << "evicted",
                     "eviction",
                     "DiskPressure",
                     "MemoryPressure",
                     "PIDPressure" >>,
     errorCodes |-> <<>>,
     severity |-> "HIGH",
     severityModifiers |-> <<>>,
     explanation |->
        [summary |-> "A pod was evicted from its node due to resource pressure (disk, memory, or PIDs). The pod will need to be rescheduled to another node.",
         rootCause |-> "The node exceeded its eviction threshold for one or more resources, forcing Kubernetes to reclaim capacity by evicting pods.",
         possibleCauses |-> << "Node disk usage exceeded the eviction threshold (typically 85-90%)",
                               "Container logs consuming excessive disk space",
                               "Temporary files or emptyDir volumes growing without bound",
                               "Too many processes (PID exhaustion) on the node",
                               "Memory pressure from other pods on the same node" >>,
         recommendedFixes |-> << "Clean up old pods: kubectl delete pod --field-selector=status.phase==Failed",
                                 "Implement log rotation and size limits for container logs",
                                 "Set resource requests and limits on all pods for fair scheduling",
                                 "Add more nodes to the cluster to distribute load",
                                 "Use pod priority and preemption to protect critical workloads",
                                 "Monitor node resources with Prometheus/Grafana or cloud monitoring" >>]]

K8S_RBAC_DENIED ==
    [id |-> "K8S_RBAC_DENIED",
     name |-> "RBAC Permission Denied",
     category |-> "kubernetes",
     patterns |-> << RegExp(Cat(<<Lit("forbidden"), Star(AnyChar), Lit("RBAC")>>), TRUE),
                     RegExp(Cat(<<Lit("cannot"), Star(AnyChar), Alt(<<Lit("get"), Lit("list"), Lit("watch"), Lit("create"), Lit("update"), Lit("delete")>>), Star(AnyChar), Alt(<<Lit("pods"), Lit("services"), Lit("deployments"), Lit("secrets")>>)>>), TRUE),
                     RegExp(Cat(<<Lit("User"), Star(AnyChar), Lit("cannot")>>), TRUE),
                     RegExp(Cat(<<Lit("is"), Plus(Space), Lit("forbidden")>>), TRUE) >>,
     keywords |-> << "forbidden",
                     "RBAC",
                     "cannot",
                     "permission",
                     "service account" >>,
     errorCodes |-> <<>>,
     severity |-> "HIGH",
     severityModifiers |-> <<>>,
     explanation |->
        [summary |-> "A Kubernetes RBAC policy denied the requested operation. The user or service account lacks the required permissions.",
         rootCause |-> "The authenticated identity does not have a ClusterRole/Role or ClusterRoleBinding/RoleBinding granting the necessary permissions.",
         possibleCauses |-> << "Service account not assigned the required Role or ClusterRole",
                               "RoleBinding is in the wrong namespace",
                               "ClusterRole permissions are too restrictive",
                               "RBAC policy was recently changed or tightened",
                               "Using the default service account which has minimal permissions" >>,
         recommendedFixes |-> << "Check current permissions: kubectl auth can-i --as=system:serviceaccount:<ns>:<sa> <verb> <resource>",
                                 "Create or update the Role/ClusterRole with the needed permissions",
                                 "Bind the role to the service account with a RoleBinding",
                                 "Avoid using cluster-admin in production ~ follow least privilege",
                                 "Review RBAC policies: kubectl get clusterrolebindings -o wide" >>]]

kubernetesPatterns ==
    << K8S_POD_CRASHLOOP, K8S_IMAGE_PULL_FAIL, K8S_OOM_KILLED, K8S_NODE_NOT_READY,
       K8S_LIVENESS_FAIL, K8S_EVICTION, K8S_RBAC_DENIED >>

DOCKER_DAEMON_ERROR ==
    [id |-> "DOCKER_DAEMON_ERROR",
     name |-> "Docker Daemon Error",
     category |-> "docker",
     patterns |-> << RegExp(Cat(<<Lit("docker"), Plus(Space), Lit("daemon"), Star(AnyChar), Alt(<<Lit("error"), Lit("fail"), Cat(<<Lit("not"), Plus(Space), Lit("running")>>)>>)>>), TRUE),
                     RegExp(Cat(<<Lit("Cannot"), Plus(Space), Lit("connect"), Plus(Space), Lit("to"), Plus(Space), Lit("the"), Plus(Space), Lit("Docker"), Plus(Space), Lit("daemon")>>), TRUE),
                     RegExp(Cat(<<Lit("Is"), Plus(Space), Lit("the"), Plus(Space), Lit("docker"), Plus(Space), Lit("daemon"), Plus(Space), Lit("running")>>), TRUE),
                     RegExp(Cat(<<Lit("docker.sock"), Star(AnyChar), Alt(<<Lit("permission"), Lit("denied"), Cat(<<Lit("not"), Plus(Space), Lit("found")>>)>>)>>), TRUE) >>,
     keywords |-> << "docker daemon",
                     "docker.sock",
                     "dockerd",
                     "daemon not running" >>,
     errorCodes |-> <<>>,
     severity |-> "CRITICAL",
     severityModifiers |-> <<>>,
     explanation |->
        [summary |-> "The Docker daemon is not running or not accessible. All container operations will fail until the daemon is restored.",
         rootCause |-> "The Docker daemon process (dockerd) is not running, or the current user lacks permission to access the Docker socket.",
         possibleCauses |-> << "Docker daemon crashed or was stopped",
                               "Docker socket permissions prevent access (need sudo or docker group)",
                               "systemd service for Docker failed to start",
                               "Disk space exhaustion preventing daemon operations",
                               "Docker configuration file is corrupted or invalid" >>,
         recommendedFixes |-> << "Start the Docker daemon: sudo systemctl start docker",
                                 "Check daemon status: sudo systemctl status docker",
                                 "Add user to docker group: sudo usermod -aG docker $USER",
                                 "Check daemon logs: journalctl -u docker.service",
                                 "Verify disk space is available for Docker: df -h /var/lib/docker" >>]]

DOCKER_BUILD_FAIL ==
    [id |-> "DOCKER_BUILD_FAIL",
     name |-> "Docker Build Failed",
     category |-> "docker",
     patterns |-> << RegExp(Cat(<<Alt(<<Lit("docker"), Cat(<<Lit("build"), Opt(Lit("x"))>>)>>), Plus(Space), Lit("build"), Star(AnyChar), Alt(<<Lit("error"), Lit("fail")>>)>>), TRUE),
                     RegExp(Cat(<<Lit("COPY"), Plus(Space), Lit("failed"), Star(AnyChar), Alt(<<Cat(<<Lit("file"), Plus(Space), Lit("not"), Plus(Space), Lit("found")>>), Cat(<<Lit("no"), Plus(Space), Lit("such"), Plus(Space), Lit("file")>>)>>)>>), TRUE),
                     RegExp(Cat(<<Lit("RUN"), Star(AnyChar), Lit("returned"), Plus(Space), Lit("a"), Plus(Space), Lit("non-zero"), Plus(Space), Lit("code")>>), TRUE),
                     RegExp(Cat(<<Lit("failed"), Plus(Space), Lit("to"), Plus(Space), Lit("compute"), Plus(Space), Lit("cache"), Plus(Space), Lit("key")>>), TRUE),
                     RegExp(Cat(<<Lit("executor"), Plus(Space), Lit("failed"), Plus(Space), Lit("running")>>), TRUE) >>,
     keywords |-> << "docker build",
                     "Dockerfile",
                     "build failed",
                     "COPY failed",
                     "RUN failed" >>,
     errorCodes |-> <<>>,
     severity |-> "HIGH",
     severityModifiers |-> <<>>,
     explanation |->
        [summary |-> "A Docker image build failed during one of its steps. The container image was not created.",
         rootCause |-> "A Dockerfile instruction (RUN, COPY, ADD) failed during build execution.",
         possibleCauses |-> << "File referenced in COPY/ADD does not exist in the build context",
                               "RUN command failed (package install error, compilation failure)",
                               ".dockerignore is excluding required files",
                               "Base image not available or incompatible architecture",
                               "Network issues during package downloads in RUN steps",
                               "Incorrect working directory (WORKDIR) path" >>,
         recommendedFixes |-> << "Check that all files referenced in COPY exist relative to the Dockerfile",
                                 "Review .dockerignore to ensure required files are not excluded",
                                 "Run failing RUN commands locally to debug the issue",
                                 "Use multi-stage builds to isolate build dependencies",
                                 "Pin base image versions instead of using :latest",
                                 "Add --no-cache flag to rebuild from scratch: docker build --no-cache" >>]]

DOCKER_CONTAINER_EXIT ==
    [id |-> "DOCKER_CONTAINER_EXIT",
     name |-> "Container Exited Unexpectedly",
     category |-> "docker",
     patterns |-> << RegExp(Cat(<<Lit("container"), Star(AnyChar), Lit("exited"), Plus(Space), Lit("with"), Plus(Space), Lit("code"), Plus(Space), Cls({"1", "2", "3", "4", "5", "6", "7", "8", "9"})>>), TRUE),
                     RegExp(Cat(<<Lit("Exited"), Plus(Space), Lit("("), Cls({"1", "2", "3", "4", "5", "6", "7", "8", "9"}), Star(Digit), Lit(")")>>), TRUE),
                     RegExp(Cat(<<Lit("container"), Star(AnyChar), Lit("died")>>), TRUE),
                     RegExp(Cat(<<Lit("process"), Star(AnyChar), Lit("exited"), Star(AnyChar), Lit("status"), Plus(Space), Cls({"1", "2", "3", "4", "5", "6", "7", "8", "9"})>>), TRUE) >>,
     keywords |-> << "exited",
                     "container died",
                     "exit code",
                     "non-zero" >>,
     errorCodes |-> <<>>,
     severity |-> "HIGH",
     severityModifiers |-> <<>>,
     explanation |->
        [summary |-> "A Docker container exited with a non-zero exit code, indicating an error or crash. The containerized application terminated unexpectedly.",
         rootCause |-> "The main process inside the container exited with an error code.",
         possibleCauses |-> << "Application crashed due to unhandled exception",
                               "Missing environment variables or configuration",
                               "Entrypoint script has an error",
                               "Dependency service not available (database, API)",
                               "Exit code 137 = OOM killed, 139 = segfault, 143 = SIGTERM" >>,
         recommendedFixes |-> << "Check container logs: docker logs <container-id>",
                                 "Inspect the exit code: docker inspect <container-id> --format=\"{{.State.ExitCode}}\"",
                                 "Run interactively to debug: docker run -it <image> /bin/sh",
                                 "Verify all required environment variables are passed with -e or --env-file",
                                 "Check if the entrypoint command exists and is executable" >>]]

DOCKER_NETWORK_ERROR ==
    [id |-> "DOCKER_NETWORK_ERROR",
     name |-> "Docker Network Error",
     category |-> "docker",
     patterns |-> << RegExp(Cat(<<Lit("docker"), Star(AnyChar), Lit("network"), Star(AnyChar), Alt(<<Lit("error"), Lit("fail"), Cat(<<Lit("not"), Plus(Space), Lit("found")>>)>>)>>), TRUE),
                     RegExp(Cat(<<Lit("failed"), Plus(Space), Lit("to"), Plus(Space), Alt(<<Lit("create"), Lit("join"), Lit("connect")>>), Plus(Space), Opt(Cat(<<Lit("to"), Plus(Space)>>)), Lit("network")>>), TRUE),
                     RegExp(Cat(<<Lit("network"), Plus(Space), Lazy(AnyChar, 0, -1), Plus(Space), Lit("not"), Plus(Space), Lit("found")>>), TRUE),
                     RegExp(Cat(<<Lit("endpoint"), Star(AnyChar), Lit("already"), Plus(Space), Lit("exists"), Plus(Space), Lit("in"), Plus(Space), Lit("network")>>), TRUE) >>,
     keywords |-> << "docker network",
                     "network not found",
                     "endpoint",
                     "bridge" >>,
     errorCodes |-> <<>>,
     severity |-> "MEDIUM",
     severityModifiers |-> <<>>,
     explanation |->
        [summary |-> "A Docker networking operation failed. Containers may not be able to communicate with each other or the outside world.",
         rootCause |-> "The specified Docker network does not exist, is misconfigured, or has a conflict.",
         possibleCauses |-> << "Referenced network was not created before starting the container",
                               "Network name typo in docker-compose.yml or docker run command",
                               "IP address conflict within the Docker network",
                               "Docker network driver issue (bridge, overlay, macvlan)",
                               "iptables/firewall rules interfering with Docker networking" >>,
         recommendedFixes |-> << "Create the network: docker network create <network-name>",
                                 "List existing networks: docker network ls",
                                 "Inspect network: docker network inspect <network-name>",
                                 "Restart Docker daemon to reset networking: sudo systemctl restart docker",
                                 "Remove stale networks: docker network prune" >>]]

DOCKER_VOLUME_ERROR ==
    [id |-> "DOCKER_VOLUME_ERROR",
     name |-> "Docker Volume Mount Error",
     category |-> "docker",
     patterns |-> << RegExp(Cat(<<Lit("volume"), Star(AnyChar), Alt(<<Lit("error"), Lit("fail"), Cat(<<Lit("not"), Plus(Space), Lit("found")>>), Lit("permission")>>)>>), TRUE),
                     RegExp(Cat(<<Lit("bind"), Plus(Space), Lit("mount"), Star(AnyChar), Alt(<<Lit("denied"), Lit("error"), Lit("fail")>>)>>), TRUE),
                     RegExp(Cat(<<Lit("mount"), Star(AnyChar), Alt(<<Lit("denied"), Lit("error"), Lit("fail")>>), Star(AnyChar), Lit("container")>>), TRUE),
                     RegExp(Cat(<<Lit("invalid"), Plus(Space), Lit("mount"), Plus(Space), Lit("config")>>), TRUE) >>,
     keywords |-> << "volume",
                     "mount",
                     "bind mount",
                     "volume error" >>,
     errorCodes |-> <<>>,
     severity |-> "HIGH",
     severityModifiers |-> <<>>,
     explanation |->
        [summary |-> "A Docker volume mount operation failed. The container cannot access the host filesystem or persistent storage as configured.",
         rootCause |-> "The volume mount path is invalid, the source does not exist, or permissions prevent mounting.",
         possibleCauses |-> << "Host directory does not exist",
                               "SELinux or AppArmor blocking the mount",
                               "Incorrect volume syntax in docker-compose.yml",
                               "Windows path format issues when using Docker Desktop",
                               "Volume driver is not installed or configured" >>,
         recommendedFixes |-> << "Ensure the host path exists before mounting",
                                 "Use named volumes instead of bind mounts for portability",
                                 "Check SELinux context: add :z or :Z suffix to the volume mount",
                                 "Verify file ownership inside the container matches the running user",
                                 "On Windows, ensure the drive is shared in Docker Desktop settings" >>]]

dockerPatterns ==
    << DOCKER_DAEMON_ERROR, DOCKER_BUILD_FAIL, DOCKER_CONTAINER_EXIT,
       DOCKER_NETWORK_ERROR, DOCKER_VOLUME_ERROR >>

CLOUD_LAMBDA_TIMEOUT ==
    [id |-> "CLOUD_LAMBDA_TIMEOUT",
     name |-> "Lambda/Cloud Function Timeout",
     category |-> "cloud",
     patterns |-> << RegExp(Cat(<<Lit("Task"), Plus(Space), Lit("timed"), Plus(Space), Lit("out"), Plus(Space), Lit("after"), Plus(Space), Plus(Digit), Star(AnyChar), Lit("seconds")>>), TRUE),
                     RegExp(Cat(<<Lit("Lambda"), Star(AnyChar), Lit("timeout")>>), TRUE),
                     RegExp(Lit("FUNCTION_INVOCATION_TIMEOUT"), TRUE),
                     RegExp(Cat(<<Lit("Function"), Plus(Space), Lit("execution"), Plus(Space), Lit("took"), Plus(Space), Plus(Digit), Plus(Space), Lit("ms"), Star(AnyChar), Lit("finished"), Plus(Space), Lit("with"), Plus(Space), Lit("status"), Star(AnyChar), Lit("timeout")>>), TRUE),
                     RegExp(Cat(<<Lit("cloud"), Star(Space), Lit("function"), Star(AnyChar), Lit("time"), Opt(Lit("d")), Star(Space), Lit("out")>>), TRUE) >>,
     keywords |-> << "Lambda",
                     "timeout",
                     "cloud function",
                     "function invocation",
                     "serverless" >>,
     errorCodes |-> <<>>,
     severity |-> "HIGH",
     severityModifiers |-> <<>>,
     explanation |->
        [summary |-> "A serverless function (AWS Lambda, GCP Cloud Function, Azure Function) exceeded its maximum execution time and was terminated.",
         rootCause |-> "The function did not complete within the configured timeout limit.",
         possibleCauses |-> << "Function timeout configured too low for the workload",
                               "Slow external API call or database query blocking execution",
                               "Cold start adding significant latency",
                               "Infinite loop or recursive call in the function code",
                               "Large payload processing exceeding time limits",
                               "VPC-attached Lambda with slow ENI provisioning" >>,
         recommendedFixes |-> << "Increase the function timeout setting (max 15 min for Lambda)",
                                 "Optimize the function code to complete faster",
                                 "Move long-running work to a queue + worker pattern (SQS, Cloud Tasks)",
                                 "Use provisioned concurrency to eliminate cold starts",
                                 "Add connection pooling for database connections",
                                 "Break large tasks into smaller, chained function invocations" >>]]

CLOUD_LAMBDA_MEMORY ==
    [id |-> "CLOUD_LAMBDA_MEMORY",
     name |-> "Lambda/Function Out of Memory",
     category |-> "cloud",
     patterns |-> << RegExp(Lit("Runtime.ExitError"), TRUE),
                     RegExp(Cat(<<Lit("RequestId"), Star(AnyChar), Lit("Process"), Plus(Space), Lit("exited"), Plus(Space), Lit("before"), Plus(Space), Lit("completing")>>), TRUE),
                     RegExp(Lit("FUNCTION_INVOCATION_FAILED"), TRUE),
                     RegExp(Cat(<<Lit("memory"), Plus(Space), Lit("size"), Star(AnyChar), Lit("exceeded")>>), TRUE),
                     RegExp(Lit("Runtime.OutOfMemory"), TRUE) >>,
     keywords |-> << "Lambda",
                     "out of memory",
                     "function invocation failed",
                     "Runtime.ExitError" >>,
     errorCodes |-> <<>>,
     severity |-> "HIGH",
     severityModifiers |-> <<>>,
     explanation |->
        [summary |-> "A serverless function ran out of memory and was terminated. The function was allocated insufficient memory for its workload.",
         rootCause |-> "The function consumed more memory than its configured memory allocation allows.",
         possibleCauses |-> << "Memory allocation set too low for the workload",
                               "Large file or data processing consuming excessive memory",
                               "Memory leak across warm invocations",
                               "Loading too many dependencies at cold start",
                               "Buffer overflow from large HTTP response bodies" >>,
         recommendedFixes |-> << "Increase the function memory allocation",
                                 "Stream large files instead of loading them entirely into memory",
                                 "Profile memory usage with AWS Lambda Power Tuning",
                                 "Implement pagination for large data sets",
                                 "Clean up resources at the end of each invocation" >>]]

CLOUD_S3_ACCESS_DENIED ==
    [id |-> "CLOUD_S3_ACCESS_DENIED",
     name |-> "S3/Storage Access Denied",
     category |-> "cloud",
     patterns |-> << RegExp(Cat(<<Lit("AccessDenied"), Star(AnyChar), Alt(<<Lit("S3"), Lit("s3"), Lit("bucket")>>)>>), TRUE),
                     RegExp(Cat(<<Lit("Access"), Plus(Space), Lit("Denied"), Star(AnyChar), Alt(<<Lit("storage"), Lit("blob"), Lit("bucket"), Lit("object")>>)>>), TRUE),
                     RegExp(Lit("NoSuchBucket"), TRUE),
                     RegExp(Lit("NoSuchKey"), TRUE),
                     RegExp(Cat(<<Lit("Storage"), Star(AnyChar), Lit("permission"), Star(AnyChar), Lit("denied")>>), TRUE),
                     RegExp(Cat(<<Lit("403"), Star(AnyChar), Alt(<<Lit("S3"), Lit("bucket"), Lit("storage")>>)>>), TRUE) >>,
     keywords |-> << "S3",
                     "AccessDenied",
                     "bucket",
                     "storage",
                     "NoSuchBucket",
                     "NoSuchKey" >>,
     errorCodes |-> << "AccessDenied",
                       "NoSuchBucket",
                       "NoSuchKey",
                       "403" >>,
     severity |-> "HIGH",
     severityModifiers |-> <<>>,
     explanation |->
        [summary |-> "Access to a cloud storage resource (S3 bucket, GCS bucket, Azure Blob) was denied, or the resource does not exist.",
         rootCause |-> "The IAM identity lacks permissions to access the storage resource, or the resource name is incorrect.",
         possibleCauses |-> << "IAM policy does not grant s3:GetObject, s3:PutObject, etc.",
                               "Bucket policy explicitly denies access",
                               "Bucket name or object key is incorrect",
                               "Bucket is in a different region or account",
                               "VPC endpoint policy is restricting access",
                               "KMS key access denied for encrypted objects" >>,
         recommendedFixes |-> << "Check IAM permissions: aws iam simulate-principal-policy",
                                 "Review the bucket policy for explicit deny statements",
                                 "Verify the bucket name and object key are correct",
                                 "Ensure the role has KMS decrypt permissions for encrypted buckets",
                                 "Check VPC endpoint policy if accessing from within a VPC",
                                 "Use AWS CloudTrail to investigate the denied API call" >>]]

CLOUD_THROTTLING ==
    [id |-> "CLOUD_THROTTLING",
     name |-> "Cloud API Throttling",
     category |-> "cloud",
     patterns |-> << RegExp(Lit("Throttling"), TRUE),
                     RegExp(Cat(<<Lit("Rate"), Plus(Space), Lit("exceeded")>>), TRUE),
                     RegExp(Lit("TooManyRequestsException"), TRUE),
                     RegExp(Lit("SlowDown"), TRUE),
                     RegExp(Lit("ProvisionedThroughputExceededException"), TRUE),
                     RegExp(Lit("ThrottlingException"), TRUE),
                     RegExp(Cat(<<Lit("API"), Plus(Space), Lit("rate"), Plus(Space), Lit("limit"), Plus(Space), Lit("exceeded")>>), TRUE) >>,
     keywords |-> << "throttling",
                     "rate exceeded",
                     "SlowDown",
                     "TooManyRequests",
                     "provisioned throughput" >>,
     errorCodes |-> << "Throttling",
                       "SlowDown",
                       "TooManyRequestsException" >>,
     severity |-> "MEDIUM",
     severityModifiers |-> << [condition |-> RegExp(Alt(<<Lit("repeated"), Lit("sustained"), Lit("continuous")>>), TRUE),
                               severity |-> "HIGH",
                               reason |-> "Sustained API throttling causes cascading failures and data loss"] >>,
     explanation |->
        [summary |-> "Cloud API requests are being throttled ~ the service is rejecting requests because the rate limit has been exceeded.",
         rootCause |-> "The application is sending API requests faster than the cloud provider allows for the configured service tier.",
         possibleCauses |-> << "Burst of requests exceeding the per-second API rate limit",
                               "DynamoDB table provisioned throughput is too low",
                               "S3 request rate limit per prefix exceeded (5,500 GET/s)",
                               "Missing exponential backoff on API calls",
                               "Parallel processing creating too many concurrent API calls" >>,
         recommendedFixes |-> << "Implement exponential backoff with jitter on retries",
                                 "Request a service quota increase from the cloud provider",
                                 "Use batch APIs instead of individual item operations",
                                 "Distribute requests across multiple partitions/prefixes",
                                 "Enable auto-scaling for DynamoDB or increase provisioned capacity",
                                 "Cache frequently accessed data to reduce API call volume" >>]]

CLOUD_IAM_ERROR ==
    [id |-> "CLOUD_IAM_ERROR",
     name |-> "IAM Authentication/Authorization Error",
     category |-> "cloud",
     patterns |-> << RegExp(Lit("UnauthorizedAccess"), TRUE),
                     RegExp(Lit("InvalidClientTokenId"), TRUE),
                     RegExp(Lit("SignatureDoesNotMatch"), TRUE),
                     RegExp(Lit("ExpiredToken"), TRUE),
                     RegExp(Cat(<<Lit("AssumeRole"), Star(AnyChar), Alt(<<Lit("fail"), Lit("denied"), Lit("error")>>)>>), TRUE),
                     RegExp(Cat(<<Lit("sts"), Star(AnyChar), Alt(<<Lit("error"), Lit("fail"), Lit("denied")>>)>>), TRUE),
                     RegExp(Cat(<<Lit("credentials"), Star(AnyChar), Alt(<<Lit("expired"), Lit("invalid"), Cat(<<Lit("not"), Plus(Space), Lit("found")>>)>>)>>), TRUE) >>,
     keywords |-> << "IAM",
                     "credentials",
                     "AssumeRole",
                     "STS",
                     "unauthorized",
                     "expired token" >>,
     errorCodes |-> << "InvalidClientTokenId",
                       "SignatureDoesNotMatch",
                       "ExpiredToken" >>,
     severity |-> "HIGH",
     severityModifiers |-> <<>>,
     explanation |->
        [summary |-> "An AWS/cloud IAM authentication or authorization error occurred. The provided credentials are invalid, expired, or lack required permissions.",
         rootCause |-> "The cloud credentials used for the API call are invalid, expired, or have insufficient permissions.",
         possibleCauses |-> << "AWS access key or secret key is incorrect or rotated",
                               "Temporary credentials (STS) have expired",
                               "AssumeRole failed due to missing trust relationship",
                               "Instance profile or service account not attached to the resource",
                               "Clock skew causing signature validation failures",
                               "MFA required but not provided for the API call" >>,
         recommendedFixes |-> << "Verify credentials: aws sts get-caller-identity",
                                 "Rotate and update access keys if compromised",
                                 "Check the IAM role trust policy for AssumeRole issues",
                                 "Ensure the EC2 instance has an instance profile attached",
                                 "Synchronize system clock: sudo ntpdate ntp.ubuntu.com",
                                 "Use IAM roles instead of long-lived access keys" >>]]

cloudPatterns ==
    << CLOUD_LAMBDA_TIMEOUT, CLOUD_LAMBDA_MEMORY, CLOUD_S3_ACCESS_DENIED,
       CLOUD_THROTTLING, CLOUD_IAM_ERROR >>

MQ_CONNECTION_LOST ==
    [id |-> "MQ_CONNECTION_LOST",
     name |-> "Message Broker Connection Lost",
     category |-> "messaging",
     patterns |-> << RegExp(Cat(<<Alt(<<Lit("rabbit"), Lit("amqp"), Lit("kafka"), Lit("redis"), Lit("nats")>>), Star(AnyChar), Lit("connection"), Star(AnyChar), Alt(<<Lit("lost"), Lit("closed"), Lit("refused"), Lit("fail")>>)>>), TRUE),
                     RegExp(Cat(<<Lit("broker"), Star(AnyChar), Alt(<<Lit("disconnected"), Lit("unreachable"), Lit("down")>>)>>), TRUE),
                     RegExp(Cat(<<Lit("AMQP"), Star(AnyChar), Alt(<<Lit("error"), Lit("connection"), Lit("closed")>>)>>), TRUE),
                     RegExp(Lit("KafkaJSConnectionError"), TRUE),
                     RegExp(Cat(<<Lit("lost"), Plus(Space), Lit("connection"), Plus(Space), Lit("to"), Plus(Space), Alt(<<Lit("broker"), Lit("queue"), Lit("message")>>)>>), TRUE) >>,
     keywords |-> << "RabbitMQ",
                     "Kafka",
                     "AMQP",
                     "broker",
                     "connection lost",
                     "message queue" >>,
     errorCodes |-> <<>>,
     severity |-> "HIGH",
     severityModifiers |-> <<>>,
     explanation |->
        [summary |-> "The application lost its connection to the message broker (RabbitMQ, Kafka, Redis, NATS). Messages cannot be published or consumed until the connection is restored.",
         rootCause |-> "The message broker is unreachable ~ it may be down, overloaded, or a network issue is preventing communication.",
         possibleCauses |-> << "Message broker process crashed or was restarted",
                               "Network connectivity issue between the application and the broker",
                               "Broker maximum connection limit reached",
                               "Firewall rule blocking the broker port",
                               "Broker authentication credentials changed",
                               "DNS resolution failure for the broker hostname" >>,
         recommendedFixes |-> << "Check broker status and health",
                                 "Verify network connectivity to the broker on the correct port",
                                 "Implement automatic reconnection with exponential backoff",
                                 "Check broker logs for resource exhaustion or crash reasons",
                                 "Ensure broker credentials and connection string are correct",
                                 "Set up broker clustering/HA for high availability" >>]]

MQ_CONSUMER_LAG ==
    [id |-> "MQ_CONSUMER_LAG",
     name |-> "Message Consumer Lag",
     category |-> "messaging",
     patterns |-> << RegExp(Cat(<<Lit("consumer"), Plus(Space), Alt(<<Lit("lag"), Lit("behind"), Cat(<<Lit("falling"), Plus(Space), Lit("behind")>>)>>)>>), TRUE),
                     RegExp(Cat(<<Lit("message"), Star(AnyChar), Lit("backlog")>>), TRUE),
                     RegExp(Cat(<<Lit("queue"), Plus(Space), Alt(<<Lit("depth"), Lit("size")>>), Star(AnyChar), Alt(<<Lit("high"), Lit("growing"), Lit("exceeded")>>)>>), TRUE),
                     RegExp(Cat(<<Lit("offset"), Star(AnyChar), Lit("lag")>>), TRUE),
                     RegExp(Cat(<<Lit("unacked"), Star(AnyChar), Alt(<<Lit("messages"), Lit("count")>>), Star(AnyChar), Alt(<<Lit("high"), Lit("growing")>>)>>), TRUE) >>,
     keywords |-> << "consumer lag",
                     "backlog",
                     "queue depth",
                     "offset lag",
                     "unacked messages" >>,
     errorCodes |-> <<>>,
     severity |-> "MEDIUM",
     severityModifiers |-> << [condition |-> RegExp(Alt(<<Lit("critical"), Lit("emergency"), Cat(<<Lit("very"), Plus(Space), Lit("high")>>)>>), TRUE),
                               severity |-> "HIGH",
                               reason |-> "Extreme consumer lag can cause data loss if messages expire"] >>,
     explanation |->
        [summary |-> "Message consumers are falling behind producers ~ messages are accumulating faster than they are being processed.",
         rootCause |-> "Consumer processing speed is slower than the message production rate.",
         possibleCauses |-> << "Consumer application is processing messages too slowly",
                               "Not enough consumer instances to handle the load",
                               "Consumer is blocked by a slow downstream dependency",
                               "Network bandwidth limiting message throughput",
                               "Poison message causing repeated processing failures",
                               "Consumer group rebalancing frequently, causing pauses" >>,
         recommendedFixes |-> << "Scale up consumer instances or increase parallelism",
                                 "Optimize consumer processing logic (batch processing, async I/O)",
                                 "Implement dead letter queues for poison messages",
                                 "Increase consumer prefetch/batch size for throughput",
                                 "Monitor consumer lag with alerting: kafka-consumer-groups --describe",
                                 "Consider partitioning strategy for better parallelism" >>]]

MQ_DEAD_LETTER ==
    [id |-> "MQ_DEAD_LETTER",
     name |-> "Dead Letter Queue Message",
     category |-> "messaging",
     patterns |-> << RegExp(Cat(<<Lit("dead"), Opt(Cls(SpaceSet \cup {"-", "."})), Lit("letter")>>), TRUE),
                     RegExp(Lit("DLQ"), TRUE),
                     RegExp(Cat(<<Lit("message"), Star(AnyChar), Alt(<<Lit("rejected"), Lit("failed"), Lit("undeliverable")>>)>>), TRUE),
                     RegExp(Cat(<<Lit("max"), Plus(Space), Lit("retrie"), Opt(Lit("s")), Plus(Space), Lit("exceeded")>>), TRUE),
                     RegExp(Cat(<<Lit("message"), Star(AnyChar), Lit("poison")>>), TRUE) >>,
     keywords |-> << "dead letter",
                     "DLQ",
                     "rejected",
                     "max retries",
                     "poison message",
                     "undeliverable" >>,
     errorCodes |-> <<>>,
     severity |-> "MEDIUM",
     severityModifiers |-> <<>>,
     explanation |->
        [summary |-> "A message was moved to the dead letter queue (DLQ) after exhausting all retry attempts. The message could not be processed successfully.",
         rootCause |-> "The consumer failed to process the message after the maximum number of retries.",
         possibleCauses |-> << "Message format is invalid or schema has changed",
                               "Processing logic throws an unhandled exception for this message",
                               "Downstream service required for processing is unavailable",
                               "Message payload exceeds size limits",
                               "Serialization/deserialization error (incompatible data types)" >>,
         recommendedFixes |-> << "Inspect DLQ messages: identify the common failure pattern",
                                 "Fix the consumer code to handle the failing message type",
                                 "Implement schema validation on message ingestion",
                                 "Set up DLQ monitoring and alerting",
                                 "Create a DLQ replay mechanism for reprocessing fixed messages",
                                 "Add structured error logging to capture why each message fails" >>]]

MQ_PUBLISH_FAIL ==
    [id |-> "MQ_PUBLISH_FAIL",
     name |-> "Message Publish Failed",
     category |-> "messaging",
     patterns |-> << RegExp(Cat(<<Alt(<<Lit("publish"), Lit("produce"), Lit("send")>>), Star(AnyChar), Alt(<<Lit("fail"), Lit("error"), Lit("timeout")>>), Star(AnyChar), Alt(<<Lit("message"), Lit("queue"), Lit("topic")>>)>>), TRUE),
                     RegExp(Cat(<<Lit("message"), Star(AnyChar), Opt(Cat(<<Lit("not"), Plus(Space)>>)), Alt(<<Lit("publish"), Lit("deliver"), Lit("sent")>>)>>), TRUE),
                     RegExp(Lit("KafkaJSNumberOfRetriesExceeded"), TRUE),
                     RegExp(Cat(<<Lit("channel"), Plus(Space), Lit("closed")>>), TRUE),
                     RegExp(Cat(<<Lit("exchange"), Star(AnyChar), Lit("not"), Plus(Space), Lit("found")>>), TRUE) >>,
     keywords |-> << "publish failed",
                     "produce error",
                     "message delivery",
                     "channel closed" >>,
     errorCodes |-> <<>>,
     severity |-> "HIGH",
     severityModifiers |-> <<>>,
     explanation |->
        [summary |-> "The application failed to publish a message to the message broker. The message was not delivered and may be lost.",
         rootCause |-> "The publish operation to the message broker failed due to connectivity, configuration, or broker issues.",
         possibleCauses |-> << "Broker connection is down (see MQ_CONNECTION_LOST)",
                               "Topic or exchange does not exist",
                               "Publisher confirmation timed out",
                               "Message exceeds the broker maximum message size",
                               "Broker disk is full, rejecting new messages",
                               "Incorrect routing key or topic name" >>,
         recommendedFixes |-> << "Verify broker connectivity and topic/exchange existence",
                                 "Implement publisher confirms/acknowledgments",
                                 "Add a local fallback queue for messages that fail to publish",
                                 "Check broker disk usage and increase storage if needed",
                                 "Validate message size before publishing",
                                 "Use transactions or idempotent producers to prevent message loss" >>]]

messagingPatterns ==
    << MQ_CONNECTION_LOST, MQ_CONSUMER_LAG, MQ_DEAD_LETTER, MQ_PUBLISH_FAIL >>

CACHE_REDIS_ERROR ==
    [id |-> "CACHE_REDIS_ERROR",
     name |-> "Redis Connection/Command Error",
     category |-> "caching",
     patterns |-> << RegExp(Cat(<<Lit("redis"), Star(AnyChar), Alt(<<Cat(<<Lit("connection"), Plus(Space), Lit("refused")>>), Lit("ECONNREFUSED")>>)>>), TRUE),
                     RegExp(Cat(<<Lit("Redis"), Star(AnyChar), Alt(<<Lit("error"), Lit("fail"), Lit("timeout"), Lit("NOAUTH"), Lit("WRONGPASS")>>)>>), TRUE),
                     RegExp(Cat(<<Lit("NOAUTH"), Plus(Space), Lit("Authentication"), Plus(Space), Lit("required")>>), TRUE),
                     RegExp(Cat(<<Lit("ERR"), Plus(Space), Lit("max"), Plus(Space), Lit("number"), Plus(Space), Lit("of"), Plus(Space), Lit("clients"), Plus(Space), Lit("reached")>>), TRUE),
                     RegExp(Cat(<<Lit("redis"), Star(AnyChar), Lit("LOADING")>>), TRUE) >>,
     keywords |-> << "Redis",
                     "ECONNREFUSED",
                     "NOAUTH",
                     "cache error",
                     "redis timeout" >>,
     errorCodes |-> << "NOAUTH",
                       "WRONGPASS" >>,
     severity |-> "HIGH",
     severityModifiers |-> <<>>,
     explanation |->
        [summary |-> "A Redis operation failed ~ the cache layer is unavailable or returned an error. This may degrade performance or cause failures if caching is critical.",
         rootCause |-> "Redis is unreachable, requires authentication, or has reached its resource limits.",
         possibleCauses |-> << "Redis server is not running or crashed",
                               "Redis requires a password (requirepass) but none was provided",
                               "Redis max client connections reached",
                               "Redis is still loading dataset into memory after restart",
                               "Network connectivity issue to the Redis host/port",
                               "Redis memory is full and eviction policy is set to noeviction" >>,
         recommendedFixes |-> << "Check Redis status: redis-cli ping",
                                 "Verify Redis password in connection configuration",
                                 "Check Redis memory usage: redis-cli INFO memory",
                                 "Increase maxclients if the limit is too low",
                                 "Implement Redis Sentinel or Cluster for high availability",
                                 "Set appropriate maxmemory-policy (allkeys-lru for cache use cases)" >>]]

CACHE_MISS_SPIKE ==
    [id |-> "CACHE_MISS_SPIKE",
     name |-> "Cache Miss Rate Spike",
     category |-> "caching",
     patterns |-> << RegExp(Cat(<<Lit("cache"), Plus(Space), Lit("miss"), Star(AnyChar), Alt(<<Lit("rate"), Lit("spike"), Lit("high"), Lit("increased")>>)>>), TRUE),
                     RegExp(Cat(<<Lit("cache"), Plus(Space), Lit("hit"), Plus(Space), Lit("ratio"), Star(AnyChar), Alt(<<Lit("low"), Lit("dropped"), Lit("declining")>>)>>), TRUE),
                     RegExp(Cat(<<Lit("cache"), Star(AnyChar), Alt(<<Lit("cold"), Lit("warming"), Lit("invalidated"), Lit("flushed")>>)>>), TRUE),
                     RegExp(Cat(<<Lit("cache"), Plus(Space), Lit("stampede")>>), TRUE) >>,
     keywords |-> << "cache miss",
                     "cache hit ratio",
                     "cache cold",
                     "stampede" >>,
     errorCodes |-> <<>>,
     severity |-> "MEDIUM",
     severityModifiers |-> <<>>,
     explanation |->
        [summary |-> "The cache miss rate has spiked significantly, causing more requests to hit the backend database or API directly.",
         rootCause |-> "Cached data is missing, expired, or was invalidated, forcing direct backend lookups.",
         possibleCauses |-> << "Cache was recently flushed or the cache server restarted",
                               "TTL (time-to-live) is too short for the cached data",
                               "Cache stampede: many requests simultaneously filling the same key",
                               "Cache eviction due to memory pressure",
                               "New deployment with different cache key scheme" >>,
         recommendedFixes |-> << "Implement cache warming on startup for critical data",
                                 "Use probabilistic early expiration (cache stampede prevention)",
                                 "Set appropriate TTL values based on data change frequency",
                                 "Monitor cache hit/miss ratios with alerting",
                                 "Implement circuit breaker to protect backend during cache failures" >>]]

EMAIL_SMTP_ERROR ==
    [id |-> "EMAIL_SMTP_ERROR",
     name |-> "SMTP Email Delivery Error",
     category |-> "email",
     patterns |-> << RegExp(Cat(<<Lit("SMTP"), Star(AnyChar), Alt(<<Lit("error"), Lit("fail"), Lit("refused"), Lit("timeout")>>)>>), TRUE),
                     RegExp(Cat(<<Alt(<<Lit("mail"), Lit("email")>>), Star(AnyChar), Alt(<<Lit("delivery"), Lit("send")>>), Star(AnyChar), Alt(<<Lit("fail"), Lit("error"), Lit("bounce")>>)>>), TRUE),
                     RegExp(Cat(<<Alt(<<Lit("550"), Lit("552"), Lit("554")>>), Star(AnyChar), Alt(<<Lit("rejected"), Lit("denied"), Lit("spam"), Lit("relay")>>)>>), TRUE),
                     RegExp(Cat(<<Lit("EHLO"), Star(AnyChar), Lit("fail")>>), TRUE),
                     RegExp(Cat(<<Lit("authentication"), Star(AnyChar), Lit("fail"), Star(AnyChar), Alt(<<Lit("smtp"), Lit("mail")>>)>>), TRUE) >>,
     keywords |-> << "SMTP",
                     "email",
                     "delivery failed",
                     "bounce",
                     "rejected",
                     "mail server" >>,
     errorCodes |-> << "550",
                       "552",
                       "554",
                       "450",
                       "451" >>,
     severity |-> "MEDIUM",
     severityModifiers |-> << [condition |-> RegExp(Alt(<<Cat(<<Lit("password"), Plus(Space), Lit("reset")>>), Lit("verification"), Cat(<<Lit("critical"), Plus(Space), Lit("notification")>>)>>), TRUE),
                               severity |-> "HIGH",
                               reason |-> "Failed delivery of critical transactional emails impacts user experience"] >>,
     explanation |->
        [summary |-> "An email delivery attempt failed. The SMTP server rejected the message or the connection could not be established.",
         rootCause |-> "The SMTP server refused the email or the connection failed due to configuration, authentication, or content issues.",
         possibleCauses |-> << "SMTP authentication credentials are incorrect",
                               "Sender domain lacks proper SPF/DKIM/DMARC records",
                               "Recipient email address does not exist (hard bounce)",
                               "Email content flagged as spam by the receiving server",
                               "SMTP relay not allowed from this IP address",
                               "Mail server rate limit exceeded" >>,
         recommendedFixes |-> << "Verify SMTP credentials and connection settings (host, port, TLS)",
                                 "Set up SPF, DKIM, and DMARC records for the sending domain",
                                 "Implement bounce handling and remove invalid addresses",
                                 "Use a managed email service (SendGrid, SES, Postmark)",
                                 "Monitor email deliverability rates and bounce rates",
                                 "Implement email queuing with retry logic" >>]]

LOG_ROTATION_FAIL ==
    [id |-> "LOG_ROTATION_FAIL",
     name |-> "Log Rotation Failure",
     category |-> "logging",
     patterns |-> << RegExp(Cat(<<Lit("log"), Star(Space), Lit("rotation"), Star(AnyChar), Alt(<<Lit("fail"), Lit("error")>>)>>), TRUE),
                     RegExp(Cat(<<Lit("logrotate"), Star(AnyChar), Alt(<<Lit("error"), Lit("fail")>>)>>), TRUE),
                     RegExp(Cat(<<Lit("unable"), Plus(Space), Lit("to"), Plus(Space), Alt(<<Lit("rotate"), Lit("truncate")>>), Star(AnyChar), Lit("log")>>), TRUE),
                     RegExp(Cat(<<Lit("log"), Plus(Space), Lit("file"), Star(AnyChar), Alt(<<Cat(<<Lit("too"), Plus(Space), Lit("large")>>), Lit("exceeded"), Lit("growing")>>)>>), TRUE) >>,
     keywords |-> << "logrotate",
                     "log rotation",
                     "log file size",
                     "log truncate" >>,
     errorCodes |-> <<>>,
     severity |-> "MEDIUM",
     severityModifiers |-> <<>>,
     explanation |->
        [summary |-> "Log file rotation failed, causing log files to grow without bound. This can eventually fill up the disk.",
         rootCause |-> "The log rotation mechanism (logrotate, built-in rotation) failed to compress, archive, or truncate old log files.",
         possibleCauses |-> << "Logrotate configuration file has syntax errors",
                               "Insufficient permissions to rotate the log file",
                               "Application holds an open file handle preventing rotation",
                               "Disk space too low to create compressed archive",
                               "Logrotate cron job is not running" >>,
         recommendedFixes |-> << "Test logrotate config: logrotate -d /etc/logrotate.d/<app>",
                                 "Fix file permissions on the log directory",
                                 "Use copytruncate directive if the app cannot reopen log files",
                                 "Verify cron service is running: systemctl status crond",
                                 "Implement structured logging to a log aggregation service instead" >>]]

NGINX_BAD_GATEWAY ==
    [id |-> "NGINX_BAD_GATEWAY",
     name |-> "Nginx Bad Gateway (502)",
     category |-> "api",
     patterns |-> << RegExp(Cat(<<Lit("502"), Plus(Space), Lit("Bad"), Plus(Space), Lit("Gateway")>>), TRUE),
                     RegExp(Cat(<<Lit("HTTP"), Plus(Space), Lit("502")>>), TRUE),
                     RegExp(Cat(<<Lit("upstream"), Plus(Space), Lit("prematurely"), Plus(Space), Lit("closed"), Plus(Space), Lit("connection")>>), TRUE),
                     RegExp(Cat(<<Lit("no"), Plus(Space), Lit("live"), Plus(Space), Lit("upstreams")>>), TRUE),
                     RegExp(Cat(<<Lit("connect()"), Plus(Space), Lit("failed"), Star(AnyChar), Lit("upstream")>>), TRUE) >>,
     keywords |-> << "502",
                     "bad gateway",
                     "upstream",
                     "nginx",
                     "proxy" >>,
     errorCodes |-> << "502" >>,
     severity |-> "HIGH",
     severityModifiers |-> <<>>,
     explanation |->
        [summary |-> "Nginx returned a 502 Bad Gateway error ~ the upstream application server is not responding or crashed.",
         rootCause |-> "Nginx could not get a valid response from the upstream server that the request was proxied to.",
         possibleCauses |-> << "Upstream application server is crashed or not running",
                               "Upstream server is overloaded and dropping connections",
                               "PHP-FPM, Gunicorn, or Node.js process pool is exhausted",
                               "Upstream connection timeout is too short",
                               "Application is listening on the wrong port or socket",
                               "Firewall blocking traffic between Nginx and the upstream" >>,
         recommendedFixes |-> << "Check if the upstream application is running",
                                 "Review upstream application logs for crashes or errors",
                                 "Increase proxy_read_timeout and proxy_connect_timeout in nginx.conf",
                                 "Scale up application server processes/workers",
                                 "Verify the upstream address and port in the Nginx config",
                                 "Use health checks to automatically remove unhealthy upstreams" >>]]

DB_DEADLOCK ==
    [id |-> "DB_DEADLOCK",
     name |-> "Database Deadlock Detected",
     category |-> "database",
     patterns |-> << RegExp(Cat(<<Lit("deadlock"), Plus(Space), Lit("detected")>>), TRUE),
                     RegExp(Cat(<<Lit("Deadlock"), Plus(Space), Lit("found")>>), TRUE),
                     RegExp(Cat(<<Lit("deadlock"), Star(AnyChar), Lit("victim")>>), TRUE),
                     RegExp(Cat(<<Lit("transaction"), Star(AnyChar), Lit("deadlock")>>), TRUE),
                     RegExp(Cat(<<Lit("Error"), Plus(Space), Lit("1213")>>), TRUE) >>,
     keywords |-> << "deadlock",
                     "deadlock detected",
                     "deadlock victim",
                     "transaction conflict" >>,
     errorCodes |-> << "1213",
                       "40P01" >>,
     severity |-> "HIGH",
     severityModifiers |-> <<>>,
     explanation |->
        [summary |-> "A database deadlock was detected ~ two or more transactions are waiting for each other to release locks, creating a circular dependency.",
         rootCause |-> "Concurrent transactions acquired locks in conflicting orders, creating a cycle that the database had to break by killing one transaction.",
         possibleCauses |-> << "Transactions updating the same rows in different orders",
                               "Long-running transactions holding locks for extended periods",
                               "Missing or incorrect indexes causing full table locks",
                               "Application not using consistent lock ordering",
                               "High concurrency on frequently updated rows" >>,
         recommendedFixes |-> << "Implement consistent lock ordering across all transactions",
                                 "Keep transactions short and focused",
                                 "Add proper indexes to reduce lock scope (row-level vs table-level)",
                                 "Implement retry logic for deadlock victims (the rolled-back transaction)",
                                 "Use SELECT ... FOR UPDATE NOWAIT to fail fast instead of waiting",
                                 "Review deadlock graphs: SHOW ENGINE INNODB STATUS (MySQL)" >>]]

APP_STACK_OVERFLOW ==
    [id |-> "APP_STACK_OVERFLOW",
     name |-> "Stack Overflow / Recursion Limit",
     category |-> "application",
     patterns |-> << RegExp(Cat(<<Lit("stack"), Star(Space), Lit("overflow")>>), TRUE),
                     RegExp(Cat(<<Lit("Maximum"), Plus(Space), Lit("call"), Plus(Space), Lit("stack"), Plus(Space), Lit("size"), Plus(Space), Lit("exceeded")>>), TRUE),
                     RegExp(Lit("RecursionError"), TRUE),
                     RegExp(Lit("StackOverflowError"), TRUE),
                     RegExp(Cat(<<Lit("maximum"), Plus(Space), Lit("recursion"), Plus(Space), Lit("depth"), Plus(Space), Lit("exceeded")>>), TRUE) >>,
     keywords |-> << "stack overflow",
                     "recursion",
                     "call stack",
                     "RecursionError" >>,
     errorCodes |-> <<>>,
     severity |-> "HIGH",
     severityModifiers |-> <<>>,
     explanation |->
        [summary |-> "The application hit a stack overflow due to excessive recursion or deeply nested function calls.",
         rootCause |-> "An infinite or excessively deep recursive function call exhausted the call stack.",
         possibleCauses |-> << "Infinite recursion due to missing or incorrect base case",
                               "Circular dependency between modules or functions",
                               "Deeply nested data structure being processed recursively",
                               "Event handler triggering itself in an infinite loop",
                               "Misconfigured middleware creating a request loop" >>,
         recommendedFixes |-> << "Review recursive functions for proper base cases / termination conditions",
                                 "Convert deep recursion to iterative approach with an explicit stack",
                                 "Implement recursion depth limits as safety guards",
                                 "Check for circular references in data structures",
                                 "Use tail-call optimization where supported",
                                 "Increase stack size if the deep recursion is intentional: --stack-size flag" >>]]

APP_UNHANDLED_PROMISE ==
    [id |-> "APP_UNHANDLED_PROMISE",
     name |-> "Unhandled Promise Rejection",
     category |-> "application",
     patterns |-> << RegExp(Lit("UnhandledPromiseRejection"), TRUE),
                     RegExp(Cat(<<Lit("unhandled"), Plus(Space), Lit("promise"), Plus(Space), Lit("rejection")>>), TRUE),
                     RegExp(Lit("PromiseRejectionHandledWarning"), TRUE),
                     RegExp(Cat(<<Lit("Unhandled"), Plus(Space), Lit("Rejection")>>), TRUE),
                     RegExp(Cat(<<Lit("unhandled"), Star(AnyChar), Alt(<<Lit("error"), Lit("rejection")>>), Star(AnyChar), Alt(<<Lit("promise"), Lit("async")>>)>>), TRUE) >>,
     keywords |-> << "unhandled promise",
                     "rejection",
                     "promise rejection",
                     "async error" >>,
     errorCodes |-> <<>>,
     severity |-> "HIGH",
     severityModifiers |-> << [condition |-> RegExp(Alt(<<Cat(<<Lit("process"), Star(AnyChar), Lit("exit")>>), Lit("crash"), Lit("terminate")>>), TRUE),
                               severity |-> "CRITICAL",
                               reason |-> "Unhandled promise rejections can cause Node.js process to exit in newer versions"] >>,
     explanation |->
        [summary |-> "An async operation (Promise) was rejected but no error handler was attached. In Node.js 15+, this terminates the process.",
         rootCause |-> "A rejected Promise does not have a .catch() handler or is not inside a try/catch within an async function.",
         possibleCauses |-> << "Missing .catch() or try/catch around async/await calls",
                               "Forgotten await on an async function that throws",
                               "Error in a callback passed to a Promise",
                               "Race condition causing rejection after the handler is removed",
                               "Third-party library rejecting a promise unexpectedly" >>,
         recommendedFixes |-> << "Add .catch() to all Promises or use try/catch with async/await",
                                 "Set up a global handler: process.on(\"unhandledRejection\", handler)",
                                 "Use a linting rule (no-floating-promises) to catch missing await/catch",
                                 "Review async code for missing error handling paths",
                                 "Implement centralized error handling middleware (Express/Koa)" >>]]

APP_TYPE_ERROR ==
    [id |-> "APP_TYPE_ERROR",
     name |-> "TypeError / Null Reference",
     category |-> "application",
     patterns |-> << RegExp(Cat(<<Lit("TypeError"), Star(AnyChar), Alt(<<Lit("undefined"), Lit("null"), Cat(<<Lit("not"), Plus(Space), Lit("a"), Plus(Space), Lit("function")>>), Cat(<<Lit("not"), Plus(Space), Lit("iterable")>>)>>)>>), TRUE),
                     RegExp(Cat(<<Lit("Cannot"), Plus(Space), Lit("read"), Plus(Space), Lit("propert"), Star(AnyChar), Lit("of"), Plus(Space), Alt(<<Lit("undefined"), Lit("null")>>)>>), TRUE),
                     RegExp(Lit("NullPointerException"), TRUE),
                     RegExp(Lit("NullReferenceException"), TRUE),
                     RegExp(Cat(<<Lit("AttributeError"), Star(AnyChar), Lit("NoneType")>>), TRUE),
                     RegExp(Cat(<<Lit("is"), Plus(Space), Lit("not"), Plus(Space), Lit("a"), Plus(Space), Lit("function")>>), TRUE) >>,
     keywords |-> << "TypeError",
                     "undefined",
                     "null",
                     "NullPointerException",
                     "NullReferenceException" >>,
     errorCodes |-> <<>>,
     severity |-> "MEDIUM",
     severityModifiers |-> << [condition |-> RegExp(Alt(<<Lit("production"), Lit("prod"), Lit("live")>>), TRUE),
                               severity |-> "HIGH",
                               reason |-> "TypeErrors in production indicate untested code paths"] >>,
     explanation |->
        [summary |-> "A TypeError or null reference error occurred ~ the code attempted to use a value that is undefined or null as if it were a valid object.",
         rootCause |-> "A variable or property is null/undefined when the code expected a valid value.",
         possibleCauses |-> << "API response missing expected fields",
                               "Database query returning null instead of an object",
                               "Accessing a property before async data is loaded",
                               "Incorrect destructuring of undefined objects",
                               "Missing null checks after optional chaining",
                               "State management issue (accessing before initialization)" >>,
         recommendedFixes |-> << "Add null checks: use optional chaining (?.) and nullish coalescing (??)",
                                 "Validate API responses before accessing nested properties",
                                 "Initialize variables with default values",
                                 "Use TypeScript strict null checks to catch these at compile time",
                                 "Add unit tests for edge cases with null/undefined inputs",
                                 "Implement defensive programming patterns at data boundaries" >>]]

APP_MEMORY_LEAK ==
    [id |-> "APP_MEMORY_LEAK",
     name |-> "Memory Leak Detected",
     category |-> "memory",
     patterns |-> << RegExp(Cat(<<Lit("memory"), Plus(Space), Lit("leak")>>), TRUE),
                     RegExp(Cat(<<Lit("heap"), Plus(Space), Alt(<<Lit("size"), Lit("used"), Lit("total")>>), Star(AnyChar), Alt(<<Lit("growing"), Lit("increasing"), Lit("exceeded")>>)>>), TRUE),
                     RegExp(Cat(<<Lit("possible"), Plus(Space), Lit("memory"), Plus(Space), Lit("leak")>>), TRUE),
                     RegExp(Cat(<<Lit("EventEmitter"), Plus(Space), Lit("memory"), Plus(Space), Lit("leak")>>), TRUE),
                     RegExp(Lit("MaxListenersExceeded"), TRUE),
                     RegExp(Lit("--max-old-space-size"), TRUE) >>,
     keywords |-> << "memory leak",
                     "heap growing",
                     "EventEmitter",
                     "MaxListenersExceeded" >>,
     errorCodes |-> <<>>,
     severity |-> "HIGH",
     severityModifiers |-> <<>>,
     explanation |->
        [summary |-> "A potential memory leak was detected ~ memory usage is continuously growing without being released, eventually leading to OOM crashes.",
         rootCause |-> "Objects are being allocated but never garbage collected, typically due to retained references.",
         possibleCauses |-> << "Event listeners being added without removal (EventEmitter leak)",
                               "Global variables accumulating data over time",
                               "Caches growing without eviction limits",
                               "Closures retaining references to large objects",
                               "Database connections or HTTP responses not being closed",
                               "Circular references preventing garbage collection" >>,
         recommendedFixes |-> << "Profile heap usage: node --inspect and Chrome DevTools Memory tab",
                                 "Set max listeners: emitter.setMaxListeners(N) or fix the leak",
                                 "Implement cache size limits with LRU eviction",
                                 "Ensure all event listeners are removed on cleanup: removeListener()",
                                 "Use WeakMap/WeakRef for object references that should be GC-eligible",
                                 "Monitor RSS/heap size over time to detect gradual growth" >>]]

APP_CORS_PREFLIGHT ==
    [id |-> "APP_CORS_PREFLIGHT",
     name |-> "CORS Preflight Request Failure",
     category |-> "api",
     patterns |-> << RegExp(Cat(<<Lit("preflight"), Star(AnyChar), Alt(<<Lit("fail"), Lit("error"), Lit("blocked")>>)>>), TRUE),
                     RegExp(Cat(<<Lit("OPTIONS"), Star(AnyChar), Alt(<<Lit("405"), Lit("403"), Lit("blocked")>>)>>), TRUE),
                     RegExp(Cat(<<Lit("No"), Plus(Space), Lit("'Access-Control-Allow-Origin'")>>), TRUE),
                     RegExp(Cat(<<Lit("CORS"), Star(AnyChar), Lit("header"), Star(AnyChar), Lit("missing")>>), TRUE),
                     RegExp(Cat(<<Lit("Method"), Plus(Space), Lit("not"), Plus(Space), Lit("allowed"), Star(AnyChar), Lit("OPTIONS")>>), TRUE) >>,
     keywords |-> << "preflight",
                     "OPTIONS",
                     "CORS",
                     "Access-Control",
                     "cross-origin" >>,
     errorCodes |-> <<>>,
     severity |-> "MEDIUM",
     severityModifiers |-> <<>>,
     explanation |->
        [summary |-> "A CORS preflight (OPTIONS) request was blocked or rejected, preventing the browser from making the actual cross-origin request.",
         rootCause |-> "The server does not handle OPTIONS requests correctly or is missing required CORS response headers.",
         possibleCauses |-> << "Server does not respond to OPTIONS requests (405 Method Not Allowed)",
                               "Access-Control-Allow-Origin header not set or mismatched",
                               "Custom headers used without Access-Control-Allow-Headers listing them",
                               "Credentials mode enabled but wildcard (*) origin used",
                               "API gateway or reverse proxy stripping CORS headers" >>,
         recommendedFixes |-> << "Add CORS middleware to handle OPTIONS preflight requests",
                                 "Set Access-Control-Allow-Origin to the specific frontend domain",
                                 "List all custom headers in Access-Control-Allow-Headers",
                                 "Do not use wildcard origin (*) if credentials are needed",
                                 "Ensure the reverse proxy/CDN forwards CORS headers correctly" >>]]

APP_TIMEZONE_ERROR ==
    [id |-> "APP_TIMEZONE_ERROR",
     name |-> "Timezone / Date Parsing Error",
     category |-> "application",
     patterns |-> << RegExp(Cat(<<Alt(<<Lit("invalid"), Lit("unexpected")>>), Plus(Space), Alt(<<Lit("date"), Lit("time")>>)>>), TRUE),
                     RegExp(Cat(<<Lit("timezone"), Star(AnyChar), Alt(<<Lit("error"), Lit("invalid"), Lit("mismatch")>>)>>), TRUE),
                     RegExp(Cat(<<Lit("RangeError"), Star(AnyChar), Lit("Invalid"), Plus(Space), Lit("time"), Plus(Space), Lit("value")>>), TRUE),
                     RegExp(Cat(<<Lit("NaN"), Star(AnyChar), Alt(<<Lit("date"), Lit("time"), Lit("timestamp")>>)>>), TRUE),
                     RegExp(Cat(<<Lit("date"), Star(AnyChar), Lit("parsing"), Star(AnyChar), Alt(<<Lit("fail"), Lit("error")>>)>>), TRUE) >>,
     keywords |-> << "invalid date",
                     "timezone error",
                     "time parsing",
                     "NaN date",
                     "timestamp" >>,
     errorCodes |-> <<>>,
     severity |-> "LOW",
     severityModifiers |-> << [condition |-> RegExp(Alt(<<Lit("billing"), Lit("payment"), Lit("schedule"), Lit("cron"), Lit("deadline")>>), TRUE),
                               severity |-> "HIGH",
                               reason |-> "Date/time errors in billing, scheduling, or deadlines have business impact"] >>,
     explanation |->
        [summary |-> "A date or time value could not be parsed correctly, resulting in an invalid date, NaN, or timezone mismatch.",
         rootCause |-> "The date/time string format does not match the expected format, or timezone handling is inconsistent.",
         possibleCauses |-> << "Date string format differs between environments (US vs EU format)",
                               "Missing timezone information causing implicit UTC/local conversions",
                               "JavaScript Date constructor receiving an unparseable string",
                               "Database returning dates in a different format than expected",
                               "Daylight Saving Time (DST) transitions causing off-by-one hour errors" >>,
         recommendedFixes |-> << "Use ISO 8601 (YYYY-MM-DDTHH:mm:ssZ) for all date communications",
                                 "Store and transmit all dates in UTC, convert to local only for display",
                                 "Use a robust date library (date-fns, luxon, dayjs) instead of native Date",
                                 "Validate date inputs before processing",
                                 "Set the server timezone explicitly: TZ=UTC" >>]]

infrastructurePatterns ==
    << CACHE_REDIS_ERROR, CACHE_MISS_SPIKE, EMAIL_SMTP_ERROR, LOG_ROTATION_FAIL,
       NGINX_BAD_GATEWAY, DB_DEADLOCK, APP_STACK_OVERFLOW, APP_UNHANDLED_PROMISE,
       APP_TYPE_ERROR, APP_MEMORY_LEAK, APP_CORS_PREFLIGHT, APP_TIMEZONE_ERROR >>

\* ------------------------------------------------------------------------
\* Pattern registry (knowledge-base/pattern-registry.ts)
\*
\* A confidence is kept in hundredths: 89 stands for 0.89.
\* ------------------------------------------------------------------------

\* this.patterns as the constructor builds it: the eleven modules in registration order
RegisteredPatterns ==
    databasePatterns \o networkPatterns \o authPatterns \o systemPatterns \o apiPatterns
        \o configPatterns \o kubernetesPatterns \o dockerPatterns \o cloudPatterns
        \o messagingPatterns \o infrastructurePatterns

\* the (lower-cased keyword, rule) pairs in the order the constructor's loops visit
\* them, for the first n rules
RECURSIVE KeywordEntries(_, _)
KeywordEntries(rules, n) ==
    IF n = 0 THEN <<>>
    ELSE KeywordEntries(rules, n - 1)
         \o [j \in 1..Len(rules[n].keywords) |->
                [keyword |-> toLowerCase(rules[n].keywords[j]), pattern |-> rules[n].id]]

\* (mutant) an index that keeps, for each keyword, the first rule that declares it
BuildKeywordIndexFirstRule(rules) ==
    LET entries == KeywordEntries(rules, Len(rules))
        IsNew(k) == \A j \in 1..(k - 1) : entries[j].keyword # entries[k].keyword
        created == SelectSeq([k \in 1..Len(entries) |-> k], IsNew)
    IN [i \in 1..Len(created) |->
           [keyword |-> entries[created[i]].keyword,
            patterns |-> <<entries[created[i]].pattern>>]]

(* The keyword index the constructor's loops build.  The index is a Map: a  *)
(* sequence of entries in insertion order, that is in the order in which    *)
(* the keywords are first met, each a lower-cased keyword with the rules    *)
(* (by id) pushed for it, in the order they are pushed.                     *)
BuildKeywordIndex(rules) ==
    LET entries == KeywordEntries(rules, Len(rules))
        IsNew(k) == \A j \in 1..(k - 1) : entries[j].keyword # entries[k].keyword
        created == SelectSeq([k \in 1..Len(entries) |-> k], IsNew)
    IN [i \in 1..Len(created) |->
           LET lower == entries[created[i]].keyword
               HasKey(e) == e.keyword = lower
               pushed == SelectSeq(entries, HasKey)
           IN [keyword |-> lower, patterns |-> [j \in 1..Len(pushed) |-> pushed[j].pattern]]]

\* the length of match[0] for the regexes of a rule that match, from regex k on
MatchLengths(regexes, logLine) ==
    {m.end - m.index : m \in {r \in {match(logLine, regexes[k]) : k \in 1..Len(regexes)} : r.found}}

\* step 2: the number of keywords of the rule the lower-cased line contains
KeywordHits(keywords, logLine) ==
    LET lowerLog == toLowerCase(logLine)
    IN Cardinality({k \in 1..Len(keywords) : includes(lowerLog, toLowerCase(keywords[k]))})

\* step 3: some error code of the rule occurs in the line, case-sensitively
HasErrorCode(errorCodes, logLine) ==
    \E k \in 1..Len(errorCodes) : includes(logLine, errorCodes[k])

(* Math.round(maxConfidence * 100) is computed on IEEE-754 doubles.  It     *)
(* differs from rounding the exact value only when the exact value lies     *)
(* half-way between two hundredths, which is when 60 * length / Len(line)   *)
(* is an odd integer k.  For these (k, keyword hits capped at 3, error code *)
(* bonus) the double is just below the half and is rounded down:            *)
RoundsDownAtTie ==
    { <<15, 0, 1>>, <<15, 2, 0>>, <<15, 2, 1>>, <<17, 0, 1>>, <<17, 2, 0>>, <<17, 2, 1>>,
      <<19, 2, 1>>, <<21, 2, 1>>, <<23, 2, 1>>, <<37, 0, 0>>, <<37, 0, 1>>, <<37, 2, 0>>,
      <<37, 2, 1>>, <<39, 0, 1>>, <<39, 2, 0>>, <<41, 0, 1>>, <<41, 2, 0>>, <<43, 0, 1>>,
      <<43, 2, 0>> }

(* The confidence of a rule one of whose regexes matched length characters  *)
(* of a line of lineLength > 0 characters, with hits keyword hits and the   *)
(* error-code bonus or not, in hundredths.  n0, n1, n2 are the exact values *)
(* of maxConfidence after steps 1, 2, 3, times 100 * lineLength.            *)
\* step 1: Math.min(0.6 + matchRatio * 0.3, 0.95)
RegexStep(length, lineLength) == MinOf(60 * lineLength + 30 * length, 95 * lineLength)

\* step 2: Math.min(maxConfidence + Math.min(keywordHits, 3) * 0.05, 0.99)
KeywordStep(n0, capped, lineLength) == MinOf(n0 + 5 * capped * lineLength, 99 * lineLength)

\* (mutant) the error-code bonus is added without the cap at 0.99
ErrorCodeStepUncapped(n1, errorCode, lineLength) ==
    IF errorCode THEN n1 + 10 * lineLength ELSE n1

\* step 3: Math.min(maxConfidence + 0.1, 0.99) when an error code occurs
ErrorCodeStep(n1, errorCode, lineLength) ==
    IF errorCode THEN MinOf(n1 + 10 * lineLength, 99 * lineLength) ELSE n1

\* Math.round(maxConfidence * 100) / 100, in hundredths
RoundToHundredths(n2, lineLength, tie) ==
    IF (2 * n2) % (2 * lineLength) = lineLength
    THEN (n2 \div lineLength) + (IF tie \in RoundsDownAtTie THEN 0 ELSE 1)
    ELSE (2 * n2 + lineLength) \div (2 * lineLength)

\* (mutant) every keyword hit adds 0.05, without the cap at three hits
ConfidenceUncappedBoost(length, lineLength, hits, errorCode) ==
    RoundToHundredths(
        ErrorCodeStep(KeywordStep(RegexStep(length, lineLength), hits, lineLength),
                      errorCode, lineLength),
        lineLength,
        <<(60 * length) \div lineLength, MinOf(hits, 3), IF errorCode THEN 1 ELSE 0>>)

Confidence(length, lineLength, hits, errorCode) ==
    RoundToHundredths(
        ErrorCodeStep(KeywordStep(RegexStep(length, lineLength), MinOf(hits, 3), lineLength),
                      errorCode, lineLength),
        lineLength,
        <<(60 * length) \div lineLength, MinOf(hits, 3), IF errorCode THEN 1 ELSE 0>>)

\* (mutant) the keyword and error-code steps run whether a regex matched or not
ConfidenceOfWithoutGuard(lengths, pattern, logLine) ==
    IF Len(logLine) = 0 THEN 0
    ELSE IF lengths = {}
    THEN MinOf(5 * MinOf(KeywordHits(pattern.keywords, logLine), 3)
                   + (IF HasErrorCode(pattern.errorCodes, logLine) THEN 10 ELSE 0), 99)
    ELSE Confidence(SetMax(lengths), Len(logLine),
                    KeywordHits(pattern.keywords, logLine),
                    HasErrorCode(pattern.errorCodes, logLine))

(* The body of the loop over this.patterns for one rule: its confidence in  *)
(* hundredths, 0 when the rule is not a candidate.  On the empty line a     *)
(* regex that matches gives 0 / 0 = NaN, which fails maxConfidence > 0.     *)
ConfidenceOf(lengths, pattern, logLine) ==
    IF lengths = {} \/ Len(logLine) = 0 THEN 0
    ELSE Confidence(SetMax(lengths), Len(logLine),
                    KeywordHits(pattern.keywords, logLine),
                    HasErrorCode(pattern.errorCodes, logLine))

PatternConfidence(pattern, logLine) ==
    ConfidenceOf(MatchLengths(pattern.patterns, logLine), pattern, logLine)

\* the rule object a reference (an id) stands for
LogPattern(id) ==
    CASE id = "DB_CONN_REFUSED" -> DB_CONN_REFUSED
      [] id = "DB_TIMEOUT" -> DB_TIMEOUT
      [] id = "DB_AUTH_FAILED" -> DB_AUTH_FAILED
      [] id = "DB_POOL_EXHAUSTED" -> DB_POOL_EXHAUSTED
      [] id = "DB_REPLICATION_LAG" -> DB_REPLICATION_LAG
      [] id = "NET_CONN_TIMEOUT" -> NET_CONN_TIMEOUT
      [] id = "NET_DNS_FAILURE" -> NET_DNS_FAILURE
      [] id = "NET_CONN_RESET" -> NET_CONN_RESET
      [] id = "NET_SSL_ERROR" -> NET_SSL_ERROR
      [] id = "NET_PORT_IN_USE" -> NET_PORT_IN_USE
      [] id = "AUTH_LOGIN_FAILED" -> AUTH_LOGIN_FAILED
      [] id = "AUTH_TOKEN_EXPIRED" -> AUTH_TOKEN_EXPIRED
      [] id = "AUTH_PERMISSION_DENIED" -> AUTH_PERMISSION_DENIED
      [] id = "AUTH_BRUTE_FORCE" -> AUTH_BRUTE_FORCE
      [] id = "SYS_OOM" -> SYS_OOM
      [] id = "SYS_DISK_FULL" -> SYS_DISK_FULL
      [] id = "SYS_CPU_HIGH" -> SYS_CPU_HIGH
      [] id = "SYS_PROCESS_CRASH" -> SYS_PROCESS_CRASH
      [] id = "SYS_FILE_NOT_FOUND" -> SYS_FILE_NOT_FOUND
      [] id = "API_RATE_LIMITED" -> API_RATE_LIMITED
      [] id = "API_TIMEOUT" -> API_TIMEOUT
      [] id = "API_BAD_REQUEST" -> API_BAD_REQUEST
      [] id = "API_INTERNAL_ERROR" -> API_INTERNAL_ERROR
      [] id = "API_SERVICE_UNAVAILABLE" -> API_SERVICE_UNAVAILABLE
      [] id = "API_CORS_ERROR" -> API_CORS_ERROR
      [] id = "CFG_ENV_MISSING" -> CFG_ENV_MISSING
      [] id = "CFG_PORT_CONFLICT" -> CFG_PORT_CONFLICT
      [] id = "CFG_DEPENDENCY_ERROR" -> CFG_DEPENDENCY_ERROR
      [] id = "K8S_POD_CRASHLOOP" -> K8S_POD_CRASHLOOP
      [] id = "K8S_IMAGE_PULL_FAIL" -> K8S_IMAGE_PULL_FAIL
      [] id = "K8S_OOM_KILLED" -> K8S_OOM_KILLED
      [] id = "K8S_NODE_NOT_READY" -> K8S_NODE_NOT_READY
      [] id = "K8S_LIVENESS_FAIL" -> K8S_LIVENESS_FAIL
      [] id = "K8S_EVICTION" -> K8S_EVICTION
      [] id = "K8S_RBAC_DENIED" -> K8S_RBAC_DENIED
      [] id = "DOCKER_DAEMON_ERROR" -> DOCKER_DAEMON_ERROR
      [] id = "DOCKER_BUILD_FAIL" -> DOCKER_BUILD_FAIL
      [] id = "DOCKER_CONTAINER_EXIT" -> DOCKER_CONTAINER_EXIT
      [] id = "DOCKER_NETWORK_ERROR" -> DOCKER_NETWORK_ERROR
      [] id = "DOCKER_VOLUME_ERROR" -> DOCKER_VOLUME_ERROR
      [] id = "CLOUD_LAMBDA_TIMEOUT" -> CLOUD_LAMBDA_TIMEOUT
      [] id = "CLOUD_LAMBDA_MEMORY" -> CLOUD_LAMBDA_MEMORY
      [] id = "CLOUD_S3_ACCESS_DENIED" -> CLOUD_S3_ACCESS_DENIED
      [] id = "CLOUD_THROTTLING" -> CLOUD_THROTTLING
      [] id = "CLOUD_IAM_ERROR" -> CLOUD_IAM_ERROR
      [] id = "MQ_CONNECTION_LOST" -> MQ_CONNECTION_LOST
      [] id = "MQ_CONSUMER_LAG" -> MQ_CONSUMER_LAG
      [] id = "MQ_DEAD_LETTER" -> MQ_DEAD_LETTER
      [] id = "MQ_PUBLISH_FAIL" -> MQ_PUBLISH_FAIL
      [] id = "CACHE_REDIS_ERROR" -> CACHE_REDIS_ERROR
      [] id = "CACHE_MISS_SPIKE" -> CACHE_MISS_SPIKE
      [] id = "EMAIL_SMTP_ERROR" -> EMAIL_SMTP_ERROR
      [] id = "LOG_ROTATION_FAIL" -> LOG_ROTATION_FAIL
      [] id = "NGINX_BAD_GATEWAY" -> NGINX_BAD_GATEWAY
      [] id = "DB_DEADLOCK" -> DB_DEADLOCK
      [] id = "APP_STACK_OVERFLOW" -> APP_STACK_OVERFLOW
      [] id = "APP_UNHANDLED_PROMISE" -> APP_UNHANDLED_PROMISE
      [] id = "APP_TYPE_ERROR" -> APP_TYPE_ERROR
      [] id = "APP_MEMORY_LEAK" -> APP_MEMORY_LEAK
      [] id = "APP_CORS_PREFLIGHT" -> APP_CORS_PREFLIGHT
      [] id = "APP_TIMEZONE_ERROR" -> APP_TIMEZONE_ERROR

(* The confidence of the rule with a given id on a line, read from the memo *)
(* when the memo holds the line.                                            *)
MatchConfidence(id, logLine) ==
    IF logLine \in DOMAIN memo.confidence THEN memo.confidence[logLine][id]
    ELSE PatternConfidence(LogPattern(id), logLine)

\* for (const pattern of this.patterns): every rule with its confidence, in order
Confidences(rules, logLine) ==
    [k \in 1..Len(rules) |->
        [pattern |-> rules[k], confidence |-> MatchConfidence(rules[k], logLine)]]

\* if (matched && maxConfidence > 0) matches.push({ pattern, confidence })
IsCandidate(m) == m.confidence > 0

\* the matches array before it is sorted
CollectMatches(rules, logLine) == SelectSeq(Confidences(rules, logLine), IsCandidate)

\* (mutant) a sort that puts an element before the elements it ties with
InsertBeforeTies(sorted, x) ==
    LET before == {k \in 1..Len(sorted) : sorted[k].confidence > x.confidence}
        n == IF before = {} THEN 0 ELSE SetMax(before)
    IN SubSeq(sorted, 1, n) \o <<x>> \o SubSeq(sorted, n + 1, Len(sorted))

\* one step of a stable sort by (a, b) => b.confidence - a.confidence: x goes after
\* every element that does not come after it
InsertByConfidence(sorted, x) ==
    LET before == {k \in 1..Len(sorted) : sorted[k].confidence >= x.confidence}
        n == IF before = {} THEN 0 ELSE SetMax(before)
    IN SubSeq(sorted, 1, n) \o <<x>> \o SubSeq(sorted, n + 1, Len(sorted))

\* matches.sort((a, b) => b.confidence - a.confidence); Array.prototype.sort is stable
RECURSIVE SortByConfidence(_, _)
SortByConfidence(matches, n) ==
    IF n = 0 THEN <<>>
    ELSE InsertByConfidence(SortByConfidence(matches, n - 1), matches[n])

\* PatternRegistry.findMatchingPatterns; pattern is a reference to the rule (its id)
Sorted(matches) == SortByConfidence(matches, Len(matches))

findMatchingPatterns(logLine) == Sorted(CollectMatches(patterns, logLine))

\* PatternRegistry.findCandidatesByKeyword: the rules of the entries whose keyword the
\* lower-cased line contains, each once, in the order they are first added to the Set
findCandidatesByKeyword(logLine) ==
    LET lowerLog == toLowerCase(logLine)
        IsHit(entry) == includes(lowerLog, entry.keyword)
        hits == SelectSeq(keywordIndex, IsHit)
        added == Flatten([k \in 1..Len(hits) |-> hits[k].patterns], Len(hits))
    IN Unique(added, Len(added))

\* the registry as the constructor leaves it
ConstructedPatterns == [k \in 1..Len(RegisteredPatterns) |-> RegisteredPatterns[k].id]

ConstructedKeywordIndex == BuildKeywordIndex(RegisteredPatterns)

RegistryInit ==
    /\ patterns = ConstructedPatterns
    /\ keywordIndex = ConstructedKeywordIndex
\* ------------------------------------------------------------------------
\* Severity scorer (engine/severity-scorer.ts)
\*
\* An absent optional string (undefined) is the empty string: the code tests
\* such values only for truthiness, which "" and undefined share.
\* ------------------------------------------------------------------------

SeverityLevels == {"LOW", "MEDIUM", "HIGH", "CRITICAL"}

BASE_SCORES == [LOW |-> 15, MEDIUM |-> 40, HIGH |-> 70, CRITICAL |-> 90]

\* (mutant) the thresholds taken as strict bounds
scoreToLevelStrict(score) ==
    IF score > 80 THEN "CRITICAL"
    ELSE IF score > 55 THEN "HIGH"
    ELSE IF score > 30 THEN "MEDIUM"
    ELSE "LOW"

scoreToLevel(score) ==
    IF score >= 80 THEN "CRITICAL"
    ELSE IF score >= 55 THEN "HIGH"
    ELSE IF score >= 30 THEN "MEDIUM"
    ELSE "LOW"

\* (mutant) every level outside the three families falls back to MEDIUM
mapLogLevelToSeverityDefaultMedium(logLevel) ==
    IF logLevel = "" THEN "MEDIUM"
    ELSE LET upper == toUpperCase(logLevel)
         IN IF upper \in {"EMERG", "EMERGENCY", "FATAL", "CRIT", "CRITICAL"} THEN "CRITICAL"
            ELSE IF upper \in {"ERR", "ERROR", "ALERT"} THEN "HIGH"
            ELSE "MEDIUM"

mapLogLevelToSeverity(logLevel) ==
    IF logLevel = "" THEN "MEDIUM"
    ELSE LET upper == toUpperCase(logLevel)
         IN IF upper \in {"EMERG", "EMERGENCY", "FATAL", "CRIT", "CRITICAL"} THEN "CRITICAL"
            ELSE IF upper \in {"ERR", "ERROR", "ALERT"} THEN "HIGH"
            ELSE IF upper \in {"WARN", "WARNING", "NOTICE"} THEN "MEDIUM"
            ELSE "LOW"

\* matchedPattern: LogPattern | null
Null == [null |-> TRUE]

\* Math.round of a non-negative half-integer n/2
RoundHalf(n) == (n + 1) \div 2

criticalContextKeywords ==
    << RegExp(Alt(<<Lit("production"), Cat(<<Lit("prod"), WordBoundary>>)>>), TRUE),
       RegExp(Lit("outage"), TRUE),
       RegExp(Cat(<<Lit("data"), Star(Space), Lit("loss")>>), TRUE),
       RegExp(Cat(<<Lit("security"), Plus(Space), Lit("breach")>>), TRUE),
       RegExp(Lit("ransomware"), TRUE),
       RegExp(Lit("exploit"), TRUE) >>

repetitionHints ==
    RegExp(Alt(<<Lit("repeated"), Lit("recurring"), Lit("frequent"), Lit("multiple"),
                 Lit("consecutive")>>), TRUE)

\* (mutant) a modifier is adopted when its base score is at least the current score,
\* so that the last modifier reaching the greatest score gives the reason
ApplyModifiersLastWins(modifiers, k, rawLog, acc) ==
    LET matching == {j \in k..Len(modifiers) : test(modifiers[j].condition, rawLog)}
        top == SetMax({acc.score} \cup {BASE_SCORES[modifiers[j].severity] : j \in matching})
        winners == {j \in matching : BASE_SCORES[modifiers[j].severity] = top}
    IN IF winners = {} THEN acc
       ELSE [score |-> top, reason |-> modifiers[SetMax(winners)].reason]

\* step 2: the loop over matchedPattern.severityModifiers, from modifier k on
RECURSIVE ApplyModifiers(_, _, _, _)
ApplyModifiers(modifiers, k, rawLog, acc) ==
    IF k > Len(modifiers) THEN acc
    ELSE LET modifier == modifiers[k]
             modifiedBase == BASE_SCORES[modifier.severity]
         IN IF test(modifier.condition, rawLog) /\ modifiedBase > acc.score
            THEN ApplyModifiers(modifiers, k + 1, rawLog,
                                [score |-> modifiedBase, reason |-> modifier.reason])
            ELSE ApplyModifiers(modifiers, k + 1, rawLog, acc)

\* step 3: the log-level blend
Blend(score, logLevelScore) ==
    IF logLevelScore > score THEN RoundHalf(score + logLevelScore) ELSE score

BlendLogLevel(score, extractedLogLevel) ==
    IF extractedLogLevel # ""
    THEN Blend(score, BASE_SCORES[mapLogLevelToSeverity(extractedLogLevel)])
    ELSE score

\* step 4: +10 for the first critical context keyword that matches
ContextBoost(score, rawLog) ==
    IF \E k \in 1..Len(criticalContextKeywords) : test(criticalContextKeywords[k], rawLog)
    THEN MinOf(score + 10, 100)
    ELSE score

\* step 5: +5 for repetition hints
RepetitionBoost(score, rawLog) ==
    IF test(repetitionHints, rawLog) THEN MinOf(score + 5, 100) ELSE score

\* { level: scoreToLevel(score), score, reason }
SeverityResult(score, reason) == [level |-> scoreToLevel(score), score |-> score, reason |-> reason]

\* (mutant) the boosts of steps 4 and 5 are applied before the blend of step 3
AfterModifiersBoostsFirst(modified, rawLog, extractedLogLevel) ==
    SeverityResult(
        MaxOf(0, MinOf(100, BlendLogLevel(
                                RepetitionBoost(ContextBoost(modified.score, rawLog), rawLog),
                                extractedLogLevel))),
        modified.reason)

\* steps 3 to 5 and the clamp, after the modifiers gave modified
AfterModifiers(modified, rawLog, extractedLogLevel) ==
    SeverityResult(
        MaxOf(0, MinOf(100, RepetitionBoost(
                                ContextBoost(BlendLogLevel(modified.score, extractedLogLevel),
                                             rawLog),
                                rawLog))),
        modified.reason)

calculateSeverity(rawLog, matchedPattern, extractedLogLevel) ==
    IF matchedPattern = Null
    THEN SeverityResult(BASE_SCORES[mapLogLevelToSeverity(extractedLogLevel)],
                        "No known pattern matched. Severity derived from log level: "
                        \o (IF extractedLogLevel # "" THEN extractedLogLevel ELSE "unknown"))
    ELSE AfterModifiers(
             ApplyModifiers(matchedPattern.severityModifiers, 1, rawLog,
                            [score |-> BASE_SCORES[matchedPattern.severity],
                             reason |-> "Base severity: " \o matchedPattern.severity
                                        \o " (pattern: " \o matchedPattern.id \o ")"]),
             rawLog, extractedLogLevel)

\* (mutant) the score of the first result instead of the highest
ScoreOfFirst(scores, k) == scores[k].score

\* Math.max(...scores.map((s) => s.score)), from result k on
RECURSIVE MaxScore(_, _)
MaxScore(scores, k) ==
    IF k = Len(scores) THEN scores[k].score
    ELSE MaxOf(scores[k].score, MaxScore(scores, k + 1))

CountAtLeast(scores, threshold) ==
    Cardinality({k \in 1..Len(scores) : scores[k].score >= threshold})

\* (mutant) the two high-count boosts exclude each other
aggregateSeverityElseIf(scores) ==
    IF Len(scores) = 0
    THEN [level |-> "LOW", score |-> 0, reason |-> "No logs to analyze"]
    ELSE LET maxScore == MaxScore(scores, 1)
             highCount == CountAtLeast(scores, 55)
             criticalCount == CountAtLeast(scores, 80)
             s2 == IF highCount >= 3 THEN MinOf(maxScore + 5, 100) ELSE maxScore
             aggregateScore == IF criticalCount >= 2 THEN MinOf(s2 + 10, 100) ELSE s2
         IN [level |-> scoreToLevel(aggregateScore), score |-> aggregateScore, reason |-> ""]

aggregateSeverity(scores) ==
    IF Len(scores) = 0
    THEN [level |-> "LOW", score |-> 0, reason |-> "No logs to analyze"]
    ELSE LET maxScore == MaxScore(scores, 1)
             highCount == CountAtLeast(scores, 55)
             criticalCount == CountAtLeast(scores, 80)
             s1 == IF highCount >= 3 THEN MinOf(maxScore + 5, 100) ELSE maxScore
             s2 == IF highCount >= 5 THEN MinOf(s1 + 5, 100) ELSE s1
             aggregateScore == IF criticalCount >= 2 THEN MinOf(s2 + 10, 100) ELSE s2
         IN [level |-> scoreToLevel(aggregateScore), score |-> aggregateScore,
             reason |-> "Aggregate of " \o ToString(Len(scores)) \o " logs. Max score: "
                        \o ToString(maxScore) \o ". High-severity count: "
                        \o ToString(highCount) \o ". Critical count: "
                        \o ToString(criticalCount) \o "."]

\* ------------------------------------------------------------------------
\* Log parser (engine/log-parser.ts)
\*
\* An optional field that is undefined in the source is the empty string
\* here: every optional field the parser sets is a non-empty string, and the
\* rest of the engine tests these fields for truthiness only.
\* ------------------------------------------------------------------------

TIMESTAMP_PATTERNS ==
    << RegExp(Grp(1, Cat(<<Rep(Digit, 4, 4), Lit("-"), Rep(Digit, 2, 2), Lit("-"), Rep(Digit, 2, 2), Lit("T"), Rep(Digit, 2, 2), Lit(":"), Rep(Digit, 2, 2), Lit(":"), Rep(Digit, 2, 2), Opt(Cat(<<Lit("."), Plus(Digit)>>)), Opt(Alt(<<Lit("Z"), Cat(<<Cls({"+", "-"}), Rep(Digit, 2, 2), Opt(Lit(":")), Rep(Digit, 2, 2)>>)>>))>>)), FALSE),
       RegExp(Grp(1, Cat(<<Cls(UpperSet), Rep(Cls(LowerSet), 2, 2), Plus(Space), Rep(Digit, 1, 2), Plus(Space), Rep(Digit, 2, 2), Lit(":"), Rep(Digit, 2, 2), Lit(":"), Rep(Digit, 2, 2)>>)), FALSE),
       RegExp(Grp(1, Cat(<<Rep(Digit, 2, 2), Lit("/"), Cls(UpperSet), Rep(Cls(LowerSet), 2, 2), Lit("/"), Rep(Digit, 4, 4), Lit(":"), Rep(Digit, 2, 2), Lit(":"), Rep(Digit, 2, 2), Lit(":"), Rep(Digit, 2, 2), Plus(Space), Cls({"+", "-"}), Rep(Digit, 4, 4)>>)), FALSE),
       RegExp(Grp(1, Cat(<<Rep(Digit, 4, 4), Lit("-"), Rep(Digit, 2, 2), Lit("-"), Rep(Digit, 2, 2), Plus(Space), Rep(Digit, 2, 2), Lit(":"), Rep(Digit, 2, 2), Lit(":"), Rep(Digit, 2, 2), Opt(Cat(<<Lit("."), Plus(Digit)>>))>>)), FALSE),
       RegExp(Cat(<<WordBoundary, Grp(1, Cat(<<Lit("1"), Rep(Digit, 9, 9), Opt(Rep(Digit, 3, 3))>>)), WordBoundary>>), FALSE) >>

LOG_LEVEL_PATTERN ==
    RegExp(Cat(<<WordBoundary, Grp(1, Alt(<<Lit("EMERG"), Lit("EMERGENCY"), Lit("ALERT"), Lit("CRIT"), Lit("CRITICAL"), Lit("ERR"), Lit("ERROR"), Lit("WARN"), Lit("WARNING"), Lit("NOTICE"), Lit("INFO"), Lit("DEBUG"), Lit("TRACE"), Lit("FATAL"), Lit("VERBOSE")>>)), WordBoundary>>), TRUE)

PID_PATTERN ==
    RegExp(Alt(<<Cat(<<WordBoundary, Lit("pid"), Plus(Cls(SpaceSet \cup {":", "="})), Grp(1, Plus(Digit)), WordBoundary>>), Cat(<<Lit("["), Grp(2, Plus(Digit)), Lit("]")>>), Cat(<<WordBoundary, Lit("PID"), Plus(Space), Grp(3, Plus(Digit)), WordBoundary>>)>>), TRUE)

IP_PATTERN ==
    RegExp(Cat(<<WordBoundary, Grp(1, Cat(<<Rep(Digit, 1, 3), Lit("."), Rep(Digit, 1, 3), Lit("."), Rep(Digit, 1, 3), Lit("."), Rep(Digit, 1, 3)>>)), WordBoundary>>), FALSE)

ERROR_CODE_PATTERNS ==
    << RegExp(Cat(<<WordBoundary, Grp(1, Cat(<<Lit("E"), Rep(Cls(UpperSet \cup DigitSet \cup {"_"}), 3, -1)>>)), WordBoundary>>), FALSE),
       RegExp(Cat(<<WordBoundary, Lit("err"), Opt(Cat(<<Lit("or")>>)), Star(Cls(SpaceSet \cup {"-", "_"})), Opt(Cat(<<Lit("code")>>)), Plus(Cls(SpaceSet \cup {":", "="})), Grp(1, Plus(Cls(UpperSet \cup DigitSet \cup {"_"}))), WordBoundary>>), TRUE),
       RegExp(Cat(<<WordBoundary, Grp(1, Rep(Digit, 3, 3)), Plus(Space), Cls(UpperSet), Cls(LowerSet)>>), FALSE),
       RegExp(Cat(<<WordBoundary, Lit("code"), Plus(Cls(SpaceSet \cup {":", "="})), Opt(Cls({"\"", "'"})), Grp(1, Plus(Cls(UpperSet \cup DigitSet \cup {"_"}))), Opt(Cls({"\"", "'"})), WordBoundary>>), TRUE) >>

COMMON_ERROR_CODE_PATTERN ==
    RegExp(Cat(<<WordBoundary, Grp(1, Alt(<<Lit("ECONNREFUSED"), Lit("ECONNRESET"), Lit("ETIMEDOUT"), Lit("EPIPE"), Lit("EADDRINUSE"), Lit("EADDRNOTAVAIL"), Lit("EAI_AGAIN"), Lit("ENOTFOUND"), Lit("ENOENT"), Lit("ENOSPC"), Lit("EACCES"), Lit("EPERM"), Lit("EHOSTUNREACH"), Lit("ENETUNREACH"), Lit("ECONNABORTED")>>)), WordBoundary>>), FALSE)

HTTP_STATUS_PATTERN ==
    RegExp(Alt(<<Cat(<<WordBoundary, Lit("HTTP"), Plus(Cls(SpaceSet \cup {"/"})), Digit, Lit("."), Digit, Star(Cls({"\"", "'"})), Plus(Space), Grp(1, Rep(Digit, 3, 3)), WordBoundary>>), Cat(<<WordBoundary, Lit("status"), Plus(Cls(SpaceSet \cup {":", "="})), Grp(2, Rep(Digit, 3, 3)), WordBoundary>>), Cat(<<WordBoundary, Grp(3, Rep(Digit, 3, 3)), Plus(Space), Alt(<<Lit("OK"), Lit("Created"), Lit("Accepted"), Cat(<<Lit("Bad"), Plus(Space), Lit("Request")>>), Lit("Unauthorized"), Lit("Forbidden"), Cat(<<Lit("Not"), Plus(Space), Lit("Found")>>), Cat(<<Lit("Internal"), Plus(Space), Lit("Server")>>), Cat(<<Lit("Service"), Plus(Space), Lit("Unavailable")>>), Cat(<<Lit("Gateway"), Plus(Space), Lit("Time")>>)>>)>>)>>), TRUE)

HTTP_METHOD_PATTERN ==
    RegExp(Cat(<<WordBoundary, Grp(1, Alt(<<Lit("GET"), Lit("POST"), Lit("PUT"), Lit("PATCH"), Lit("DELETE"), Lit("HEAD"), Lit("OPTIONS"), Lit("CONNECT"), Lit("TRACE")>>)), WordBoundary>>), FALSE)

URL_PATTERN ==
    RegExp(Alt(<<Cat(<<Lit("http"), Opt(Lit("s")), Lit("://"), Plus(NotCls(SpaceSet \cup {"\"", "'"}))>>), Cat(<<Lit("/"), Plus(Cls(WordSet \cup {"!", "#", "$", "&", "'", "(", ")", "*", "+", ",", "-", ".", "/", ":", ";", "=", "?", "@", "[", "]", "~"}))>>)>>), FALSE)

USERNAME_PATTERN ==
    RegExp(Cat(<<WordBoundary, Lit("user"), Opt(Cat(<<Lit("name")>>)), Plus(Cls(SpaceSet \cup {":", "="})), Opt(Cls({"\"", "'"})), Grp(1, Plus(Cls(WordSet \cup {"-", ".", "@"}))), Opt(Cls({"\"", "'"})), WordBoundary>>), TRUE)

FILEPATH_PATTERN ==
    RegExp(Alt(<<Cat(<<Lit("/"), Plus(Cat(<<Plus(Cls(WordSet \cup {"-", "."})), Lit("/")>>)), Plus(Cls(WordSet \cup {"-", "."}))>>), Cat(<<Cls(UpperSet), Lit(":\\"), Star(Cat(<<Plus(NotCls(SpaceSet \cup {"\\"})), Lit("\\")>>)), Plus(NotCls(SpaceSet \cup {"\\"}))>>)>>), FALSE)

SOURCE_PATTERNS ==
    << RegExp(Cat(<<LineStart, Cat(<<Plus(NonSpace), Plus(Space), Plus(Digit), Plus(Space), Plus(Digit), Lit(":"), Plus(Digit), Lit(":"), Plus(Digit)>>), Plus(Space), Grp(1, Plus(NonSpace)), Plus(Space), Grp(2, Lazy(NonSpace, 1, -1)), Opt(Cat(<<Lit("["), Plus(Digit), Lit("]")>>)), Lit(":")>>), FALSE),
       RegExp(Grp(1, Cat(<<Plus(NonSpace), Lit(".service")>>)), FALSE),
       RegExp(Cat(<<LineStart, Grp(1, Plus(NonSpace)), Plus(Space), Lit("|")>>), FALSE),
       RegExp(Alt(<<Cat(<<Lit("["), Grp(1, Plus(Cls(WordSet \cup {"-", "."}))), Lit("]")>>), Cat(<<Lit("("), Grp(2, Plus(Cls(WordSet \cup {"-", "."}))), Lit(")")>>)>>), FALSE) >>

DISALLOWED_ERROR_CODES ==
    {"ERROR", "ERR", "WARN", "WARNING", "INFO", "DEBUG", "TRACE", "FATAL", "CRIT", "CRITICAL",
     "ALERT", "NOTICE", "VERBOSE", "EMERG", "EMERGENCY"}

\* a || b on optional strings
OrElse(a, b) == IF a # "" THEN a ELSE b

\* new RegExp(`\\b${escapeRegExp(ipAddress)}:(\\d{2,5})\\b`): escapeRegExp makes
\* every character of ipAddress stand for itself
IpPortPattern(ipAddress) ==
    RegExp(Cat(<<WordBoundary, Lit(ipAddress), Lit(":"), Grp(1, Rep(Digit, 2, 5)), WordBoundary>>),
           FALSE)

\* /\bport[=:\s]+(\d{2,5})\b/i
ExplicitPortPattern ==
    RegExp(Cat(<<WordBoundary, Lit("port"), Plus(Cls(SpaceSet \cup {":", "="})),
                 Grp(1, Rep(Digit, 2, 5)), WordBoundary>>), TRUE)

\* /:(\d{2,5})\b/g
ColonPortPattern ==
    RegExp(Cat(<<Lit(":"), Grp(1, Rep(Digit, 2, 5)), WordBoundary>>), FALSE)

\* /^:\d{2}\b/
TimeFragmentPattern ==
    RegExp(Cat(<<LineStart, Lit(":"), Rep(Digit, 2, 2), WordBoundary>>), FALSE)

\* /^\s*[-:]\s*/
LeadingSeparatorPattern ==
    RegExp(Cat(<<LineStart, Star(Space), Cls({"-", ":"}), Star(Space)>>), FALSE)

\* match[k] of an optional match: m ? m[k] : undefined
GroupOf(s, m, k) == IF m.found THEN Group(s, m, k) ELSE ""

\* m ? m[0] : undefined
MatchedOf(s, m) == IF m.found THEN Matched(s, m) ELSE ""

\* m ? (m[1] || m[2] || m[3]) : undefined
FirstGroupOf(s, m) ==
    IF m.found THEN OrElse(Group(s, m, 1), OrElse(Group(s, m, 2), Group(s, m, 3))) ELSE ""

(* The loop over scanText.matchAll(/:(\d{2,5})\b/g), searching from position *)
(* from: the first ":<digits>" that is not followed by another ":dd" time    *)
(* fragment, undefined if there is none.                                     *)
RECURSIVE FallbackPort(_, _)
PortOrNext(scanText, m) ==
    IF ~m.found THEN ""
    ELSE IF test(TimeFragmentPattern, SubSeq(scanText, m.end, MinOf(m.end + 2, Len(scanText))))
         THEN FallbackPort(scanText, m.end)
         ELSE Group(scanText, m, 1)

FallbackPort(scanText, from) ==
    PortOrNext(scanText, ExecIn(ColonPortPattern, scanText, from, Len(scanText) + 1))

\* if (explicitPort?.[1]) return explicitPort[1], else the fallback loop
ExplicitOrFallbackPort(scanText, explicitPort) ==
    IF explicitPort # "" THEN explicitPort ELSE FallbackPort(scanText, 1)

\* if (ipPort?.[1]) return ipPort[1], else the rest of findPort
IpPortOrRest(scanText, ipPort) ==
    IF ipPort # "" THEN ipPort
    ELSE ExplicitOrFallbackPort(scanText, GroupOf(scanText, match(scanText, ExplicitPortPattern), 1))

findPort(scanText, ipAddress) ==
    IpPortOrRest(scanText,
                 IF ipAddress # ""
                 THEN GroupOf(scanText, match(scanText, IpPortPattern(ipAddress)), 1) ELSE "")

\* the first of the regexes from number k on that matches s: [k, m], k = 0 if none does
RECURSIVE FirstMatching(_, _, _)
FoundOrNext(regexes, k, s, m) ==
    IF m.found THEN [k |-> k, m |-> m] ELSE FirstMatching(regexes, k + 1, s)

FirstMatching(regexes, k, s) ==
    IF k > Len(regexes) THEN [k |-> 0, m |-> NoMatch]
    ELSE FoundOrNext(regexes, k, s, match(s, regexes[k]))

\* the loop over ERROR_CODE_PATTERNS from pattern k on; group is match?.[1]
RECURSIVE GenericErrorCode(_, _)
\* (mutant) no candidate is rejected
CandidateUnchecked(scanText, k, group, candidate) ==
    IF group # "" THEN candidate ELSE GenericErrorCode(scanText, k + 1)

CandidateOrNext(scanText, k, group, candidate) ==
    IF group # "" /\ candidate \notin DISALLOWED_ERROR_CODES THEN candidate
    ELSE GenericErrorCode(scanText, k + 1)

UpperCandidate(scanText, k, group) == CandidateOrNext(scanText, k, group, toUpperCase(group))

GenericErrorCode(scanText, k) ==
    IF k > Len(ERROR_CODE_PATTERNS) THEN ""
    ELSE UpperCandidate(scanText, k, GroupOf(scanText, match(scanText, ERROR_CODE_PATTERNS[k]), 1))

\* if (commonError?.[1]) errorCode = commonError[1], else the loop
CommonOrGenericErrorCode(scanText, commonError) ==
    IF commonError # "" THEN commonError ELSE GenericErrorCode(scanText, 1)

\* what a call raises when it reads a property of undefined
TypeError == [raised |-> "TypeError"]

\* (mutant) the fields are looked for in the line as it is
ScanTextKeepingToken(trimmed, ts) == trimmed

\* scanText after the timestamp loop: the matched token replaced by a space
ScanText(trimmed, ts) ==
    IF ts.k > 0 THEN replaceFirst(trimmed, Matched(trimmed, ts.m), " ") ELSE trimmed

\* source = match[1] || match[2] of the first source pattern that matches
SourceOf(scanText, src) ==
    IF src.k > 0 THEN OrElse(Group(scanText, src.m, 1), Group(scanText, src.m, 2)) ELSE ""

\* .replace(/^\s*[-:]\s*/, '')
StripLead(stripped, lead) ==
    IF lead.found THEN SubSeq(stripped, lead.end, Len(stripped)) ELSE stripped

StripLeadingSeparator(stripped) == StripLead(stripped, match(stripped, LeadingSeparatorPattern))

\* messageBody: trimmed without the timestamp token and a leading separator, trimmed
MessageBody(trimmed, ts) ==
    trim(StripLeadingSeparator(IF ts.k > 0 THEN replaceFirst(trimmed, Matched(trimmed, ts.m), "")
                               ELSE trimmed))

\* the object parseLogLine returns
Metadata(trimmed, ts, scanText, levelMatch, ipAddress) ==
    IF levelMatch.found /\ levelMatch.c[1] = <<0, 0>>
    THEN TypeError    \* levelMatch[1].toUpperCase() on undefined
    ELSE
    [timestamp |-> IF ts.k > 0 THEN Group(trimmed, ts.m, 1) ELSE "",
     logLevel |-> toUpperCase(GroupOf(scanText, levelMatch, 1)),
     source |-> SourceOf(scanText, FirstMatching(SOURCE_PATTERNS, 1, scanText)),
     pid |-> FirstGroupOf(scanText, match(scanText, PID_PATTERN)),
     errorCode |-> CommonOrGenericErrorCode(
                       scanText, GroupOf(scanText, match(scanText, COMMON_ERROR_CODE_PATTERN), 1)),
     ipAddress |-> ipAddress,
     port |-> findPort(scanText, ipAddress),
     username |-> GroupOf(scanText, match(scanText, USERNAME_PATTERN), 1),
     filePath |-> MatchedOf(scanText, match(scanText, FILEPATH_PATTERN)),
     httpStatus |-> FirstGroupOf(scanText, match(scanText, HTTP_STATUS_PATTERN)),
     httpMethod |-> GroupOf(scanText, match(scanText, HTTP_METHOD_PATTERN), 1),
     url |-> MatchedOf(scanText, match(scanText, URL_PATTERN)),
     messageBody |-> MessageBody(trimmed, ts)]

ScanFields(trimmed, ts, scanText) ==
    Metadata(trimmed, ts, scanText, match(scanText, LOG_LEVEL_PATTERN),
             GroupOf(scanText, match(scanText, IP_PATTERN), 1))

ParseTrimmed(trimmed, ts) == ScanFields(trimmed, ts, ScanText(trimmed, ts))

parseLogLine(rawLog) ==
    ParseTrimmed(trim(rawLog), FirstMatching(TIMESTAMP_PATTERNS, 1, trim(rawLog)))

\* (mutant) a table without the LOW group
severityFromLogLevelWithoutLow(logLevel) ==
    IF logLevel = "" THEN "null"
    ELSE CASE toUpperCase(logLevel) \in {"EMERG", "EMERGENCY", "FATAL", "CRIT", "CRITICAL"} -> "CRITICAL"
           [] toUpperCase(logLevel) \in {"ERR", "ERROR", "ALERT"} -> "HIGH"
           [] toUpperCase(logLevel) \in {"WARN", "WARNING", "NOTICE"} -> "MEDIUM"
           [] OTHER -> "null"

\* null is the string "null" here
severityFromLogLevel(logLevel) ==
    IF logLevel = "" THEN "null"
    ELSE CASE toUpperCase(logLevel) \in {"EMERG", "EMERGENCY", "FATAL", "CRIT", "CRITICAL"} -> "CRITICAL"
           [] toUpperCase(logLevel) \in {"ERR", "ERROR", "ALERT"} -> "HIGH"
           [] toUpperCase(logLevel) \in {"WARN", "WARNING", "NOTICE"} -> "MEDIUM"
           [] toUpperCase(logLevel) \in {"INFO", "DEBUG", "TRACE", "VERBOSE"} -> "LOW"
           [] OTHER -> "null"


\* parseLogLine, read from the memo when the memo holds the line
ParsedLogMetadata(rawLog) ==
    IF rawLog \in DOMAIN memo.parse THEN memo.parse[rawLog] ELSE parseLogLine(rawLog)
\* ------------------------------------------------------------------------
\* Explanation generator (engine/explanation-generator.ts)
\*
\* A Record<string, string> or a Set is the sequence of its entries in
\* insertion order, the order JavaScript enumerates them in.
\* ------------------------------------------------------------------------

\* (mutant) the entry is written whether the value is set or not
PutAlways(metadataMap, key, value) == Append(metadataMap, [key |-> key, value |-> value])

\* metadataMap[key] = value when value is truthy
PutIfSet(metadataMap, key, value) ==
    IF value # "" THEN Append(metadataMap, [key |-> key, value |-> value]) ELSE metadataMap

\* Array.prototype.slice(0, n)
slice0(items, n) == IF Len(items) <= n THEN items ELSE SubSeq(items, 1, n)

\* Array.prototype.filter, for a set of kept indices
RECURSIVE Filter(_, _, _)
Filter(items, keep, n) ==
    IF n = 0 THEN <<>>
    ELSE IF n \in keep THEN Append(Filter(items, keep, n - 1), items[n])
    ELSE Filter(items, keep, n - 1)

\* Array.prototype.join
RECURSIVE join(_, _, _)
join(items, separator, n) ==
    IF n = 0 THEN ""
    ELSE IF n = 1 THEN items[1]
    ELSE join(items, separator, n - 1) \o separator \o items[n]

buildUnknownExplanation(rawLog, metadata, severity) ==
    LET metadataMap ==
            PutIfSet(PutIfSet(PutIfSet(PutIfSet(<<>>,
                "logLevel", metadata.logLevel),
                "errorCode", metadata.errorCode),
                "ipAddress", metadata.ipAddress),
                "httpStatus", metadata.httpStatus)
        levelLabel == toUpperCase(metadata.logLevel)
        summary ==
            IF metadata.logLevel = ""
            THEN "This log entry could not be matched to a known pattern in the knowledge base."
            ELSE IF levelLabel \in {"ERROR", "ERR", "FATAL", "CRIT", "CRITICAL", "EMERG"}
            THEN "An error-level log entry was detected but does not match any known pattern. Manual review is recommended."
            ELSE IF levelLabel \in {"WARN", "WARNING"}
            THEN "A warning-level log entry was detected but does not match any known pattern. It may indicate a non-critical issue."
            ELSE "An informational log entry was detected with log level \"" \o levelLabel
                 \o "\". No specific issue pattern was matched."
    IN [rawLog |-> rawLog,
        patternId |-> "unknown",
        summary |-> summary,
        category |-> "unknown",
        severity |-> severity.level,
        severityScore |-> severity.score,
        rootCause |-> "Unable to determine root cause ~ this log does not match any known pattern.",
        possibleCauses |-> << "New or uncommon error not yet in the knowledge base",
                              "Custom application-specific log format",
                              "Informational log with no actionable issue" >>,
        recommendedFixes |-> << "Review the log message manually for context",
                                "Check application documentation for this specific message",
                                "If this is a recurring issue, consider adding a custom pattern to the knowledge base" >>,
        metadata |-> metadataMap,
        timestamp |-> metadata.timestamp,
        source |-> metadata.source,
        confidence |-> 0,
        engine |-> "rule-based"]

\* buildExplanation for a rule that matched
buildKnownExplanation(rawLog, matchedPattern, metadata, severity, confidence) ==
    LET metadataMap ==
            PutIfSet(PutIfSet(PutIfSet(PutIfSet(PutIfSet(PutIfSet(PutIfSet(PutIfSet(PutIfSet(
            PutIfSet(<<>>,
                "logLevel", metadata.logLevel),
                "pid", metadata.pid),
                "ipAddress", metadata.ipAddress),
                "port", metadata.port),
                "errorCode", metadata.errorCode),
                "username", metadata.username),
                "filePath", metadata.filePath),
                "httpStatus", metadata.httpStatus),
                "httpMethod", metadata.httpMethod),
                "url", metadata.url)
    IN [rawLog |-> rawLog,
        patternId |-> matchedPattern.id,
        summary |-> matchedPattern.explanation.summary,
        category |-> matchedPattern.category,
        severity |-> severity.level,
        severityScore |-> severity.score,
        rootCause |-> matchedPattern.explanation.rootCause,
        possibleCauses |-> matchedPattern.explanation.possibleCauses,
        recommendedFixes |-> matchedPattern.explanation.recommendedFixes,
        metadata |-> metadataMap,
        timestamp |-> metadata.timestamp,
        source |-> metadata.source,
        confidence |-> confidence,
        engine |-> "rule-based"]

\* (mutant) the given confidence is kept on the no-rule path
buildExplanationKeepingConfidence(rawLog, matchedPattern, metadata, severity, confidence) ==
    IF matchedPattern = Null
    THEN [buildUnknownExplanation(rawLog, metadata, severity) EXCEPT !.confidence = confidence]
    ELSE buildKnownExplanation(rawLog, matchedPattern, metadata, severity, confidence)

\* (mutant) no check for a missing rule: matchedPattern.id raises on null
buildExplanationUnchecked(rawLog, matchedPattern, metadata, severity, confidence) ==
    IF matchedPattern = Null THEN TypeError
    ELSE buildKnownExplanation(rawLog, matchedPattern, metadata, severity, confidence)

buildExplanation(rawLog, matchedPattern, metadata, severity, confidence) ==
    IF matchedPattern = Null
    THEN buildUnknownExplanation(rawLog, metadata, severity)
    ELSE buildKnownExplanation(rawLog, matchedPattern, metadata, severity, confidence)

\* s.replace(/_/g, ' ')
RECURSIVE UnderscoresToSpaces(_)
UnderscoresToSpaces(s) ==
    IF Len(s) = 0 THEN ""
    ELSE IF Len(s) = 1 THEN (IF s = "_" THEN " " ELSE s)
    ELSE UnderscoresToSpaces(SubSeq(s, 1, Len(s) \div 2))
         \o UnderscoresToSpaces(SubSeq(s, Len(s) \div 2 + 1, Len(s)))

\* s.replace(/\b\w/g, (c) => c.toUpperCase()), for the characters lo..hi of s
RECURSIVE CapitalizeWords(_, _, _)
CapitalizeWords(s, lo, hi) ==
    IF lo > hi THEN ""
    ELSE IF lo = hi
         THEN (IF IsWordAt(s, lo) /\ ~IsWordAt(s, lo - 1) THEN UpperChar(CharAt(s, lo))
               ELSE CharAt(s, lo))
    ELSE CapitalizeWords(s, lo, (lo + hi) \div 2) \o CapitalizeWords(s, (lo + hi) \div 2 + 1, hi)

Field(records, name) == [k \in 1..Len(records) |-> records[k][name]]

Contains(items, x) == \E k \in 1..Len(items) : items[k] = x

KnownIndices(explanations) == {k \in 1..Len(explanations) : explanations[k].patternId # "unknown"}

generateIncidentTitle(explanations, topCategory, severity) ==
    LET knownPatterns == Filter(explanations, KnownIndices(explanations), Len(explanations))
        spaced == UnderscoresToSpaces(topCategory)
        categoryLabel == CapitalizeWords(spaced, 1, Len(spaced))
        patternCount == Cardinality({knownPatterns[k].patternId : k \in 1..Len(knownPatterns)})
    IN IF Len(knownPatterns) = 0
       THEN severity \o " Incident ~ Unrecognized Errors Detected"
       ELSE IF patternCount = 1
       THEN severity \o " Incident ~ " \o substring0(knownPatterns[1].summary, 80)
       ELSE severity \o " Incident ~ " \o ToString(patternCount)
            \o " issue types detected across " \o categoryLabel

CountSeverity(explanations, level) ==
    Cardinality({k \in 1..Len(explanations) : explanations[k].severity = level})

generateIncidentSummaryText(explanations, severity, affectedSystems, correlations) ==
    LET criticalCount == CountSeverity(explanations, "CRITICAL")
        highCount == CountSeverity(explanations, "HIGH")
        systemList == join([k \in 1..Len(affectedSystems) |-> UnderscoresToSpaces(affectedSystems[k])],
                           ", ", Len(affectedSystems))
        lines ==
            << "Analyzed " \o ToString(Len(explanations)) \o " log entries. Overall severity: "
               \o severity.level \o " (score: " \o ToString(severity.score) \o "/100)." >>
            \o (IF Len(affectedSystems) > 0 THEN << "Affected systems: " \o systemList \o "." >>
                ELSE <<>>)
            \o (IF criticalCount > 0
                THEN << ToString(criticalCount)
                        \o " critical-severity log(s) require immediate attention." >>
                ELSE <<>>)
            \o (IF highCount > 0
                THEN << ToString(highCount) \o " high-severity log(s) detected." >> ELSE <<>>)
            \o (IF Len(correlations) > 0
                THEN << "Correlations found: " \o join(correlations, "; ", Len(correlations))
                        \o "." >>
                ELSE <<>>)
    IN join(lines, " ", Len(lines))

\* (mutant) the first finding looks at the categories only, not at the rule API_TIMEOUT
detectCorrelationsByCategoryOnly(explanations) ==
    LET categories == Field(explanations, "category")
        patternIds == Field(explanations, "patternId")
        has(c) == Contains(categories, c)
    IN (IF has("database") /\ has("timeout")
        THEN << "Database issues detected alongside API timeouts ~ the database may be the root cause of slow API responses" >>
        ELSE <<>>)
       \o (IF has("memory") /\ has("process")
           THEN << "Memory issues detected alongside process crashes ~ out-of-memory condition likely caused the crash" >>
           ELSE <<>>)
       \o (IF has("authentication") /\ has("security")
           THEN << "Authentication failures alongside security alerts ~ potential coordinated attack" >>
           ELSE <<>>)
       \o (IF has("dns") /\ has("network")
           THEN << "DNS resolution failures detected alongside network errors ~ DNS may be the initial failure point" >>
           ELSE <<>>)
       \o (IF has("disk") /\ has("database")
           THEN << "Disk space issues alongside database errors ~ disk full condition may have caused database failure" >>
           ELSE <<>>)
       \o (IF has("configuration") /\ has("application")
           THEN << "Configuration errors alongside application failures ~ misconfiguration is a likely root cause" >>
           ELSE <<>>)

\* detectCorrelations: six checks in a fixed order, each pushing one sentence
detectCorrelations(explanations) ==
    LET categories == Field(explanations, "category")
        patternIds == Field(explanations, "patternId")
        has(c) == Contains(categories, c)
    IN (IF has("database") /\ (has("timeout") \/ Contains(patternIds, "API_TIMEOUT"))
        THEN << "Database issues detected alongside API timeouts ~ the database may be the root cause of slow API responses" >>
        ELSE <<>>)
       \o (IF has("memory") /\ has("process")
           THEN << "Memory issues detected alongside process crashes ~ out-of-memory condition likely caused the crash" >>
           ELSE <<>>)
       \o (IF has("authentication") /\ has("security")
           THEN << "Authentication failures alongside security alerts ~ potential coordinated attack" >>
           ELSE <<>>)
       \o (IF has("dns") /\ has("network")
           THEN << "DNS resolution failures detected alongside network errors ~ DNS may be the initial failure point" >>
           ELSE <<>>)
       \o (IF has("disk") /\ has("database")
           THEN << "Disk space issues alongside database errors ~ disk full condition may have caused database failure" >>
           ELSE <<>>)
       \o (IF has("configuration") /\ has("application")
           THEN << "Configuration errors alongside application failures ~ misconfiguration is a likely root cause" >>
           ELSE <<>>)

\* (mutant) every explanation adds an entry of its own to the breakdown
CategoryBreakdownPerLog(explanations, n) ==
    [k \in 1..n |-> [category |-> explanations[k].category, count |-> 1]]

\* categoryBreakdown[category] = (categoryBreakdown[category] || 0) + 1, for the
\* explanations up to number n
RECURSIVE CategoryBreakdown(_, _)
CategoryBreakdown(explanations, n) ==
    IF n = 0 THEN <<>>
    ELSE LET counted == CategoryBreakdown(explanations, n - 1)
             category == explanations[n].category
             at == {k \in 1..Len(counted) : counted[k].category = category}
         IN IF at = {} THEN Append(counted, [category |-> category, count |-> 1])
            ELSE [counted EXCEPT ![SetMin(at)].count = @ + 1]

\* (mutant) the last entry with the highest count
TopCategoryLastOnTie(categoryBreakdown) ==
    LET best == {k \in 1..Len(categoryBreakdown) :
                    \A j \in 1..Len(categoryBreakdown) :
                        categoryBreakdown[j].count <= categoryBreakdown[k].count}
    IN IF categoryBreakdown = <<>> THEN "unknown" ELSE categoryBreakdown[SetMax(best)].category

\* Object.entries(categoryBreakdown).sort((a, b) => b[1] - a[1])[0]: the first entry
\* with the highest count, the sort being stable
TopCategory(categoryBreakdown) ==
    LET best == {k \in 1..Len(categoryBreakdown) :
                    \A j \in 1..Len(categoryBreakdown) :
                        categoryBreakdown[j].count <= categoryBreakdown[k].count}
    IN IF categoryBreakdown = <<>> THEN "unknown" ELSE categoryBreakdown[SetMin(best)].category

(* String.prototype.localeCompare for two timestamps, as a sign.  The       *)
(* collation puts white space (tab, newline, carriage return, then the      *)
(* space, which the \s+ of the timestamp formats lets into a timestamp)     *)
(* before punctuation (- : . /) before symbols                              *)
(* (+) before digits before letters, so that "-" sorts before "+" although  *)
(* its character code is the larger one; CollationOrder lists the           *)
(* characters of the timestamp formats in that order.  A proper prefix      *)
(* sorts first.                                                             *)
CollationOrder == "\t\n\r -:./+0123456789abcdefghijklmnopqrstuvwxyz"

CollationRank(c) == IndexIn(CollationOrder, LowerChar(c))

localeCompare(a, b) ==
    LET n == MinOf(Len(a), Len(b))
        differ == {k \in 1..n : CollationRank(CharAt(a, k)) # CollationRank(CharAt(b, k))}
        cased == {k \in 1..n : CharAt(a, k) # CharAt(b, k)}
    IN IF differ # {}
       THEN (IF CollationRank(CharAt(a, SetMin(differ))) < CollationRank(CharAt(b, SetMin(differ)))
             THEN -1 ELSE 1)
       ELSE IF Len(a) # Len(b) THEN (IF Len(a) < Len(b) THEN -1 ELSE 1)
       ELSE IF cased # {}
       THEN (IF CharAt(a, SetMin(cased)) \in LowerSet THEN -1 ELSE 1)
       ELSE 0

\* (mutant) a comparator that treats a missing timestamp as the lowest one
compareTimelineMissingFirst(a, b) ==
    IF a.timestamp = "" /\ b.timestamp = "" THEN 0
    ELSE IF a.timestamp = "" THEN -1
    ELSE IF b.timestamp = "" THEN 1
    ELSE localeCompare(a.timestamp, b.timestamp)

\* the comparator of timeline.sort
compareTimeline(a, b) ==
    IF a.timestamp = "" /\ b.timestamp = "" THEN 0
    ELSE IF a.timestamp = "" THEN 1
    ELSE IF b.timestamp = "" THEN -1
    ELSE localeCompare(a.timestamp, b.timestamp)

\* one step of a stable sort: x goes after every element that does not come after it
InsertEvent(sorted, x) ==
    LET before == {k \in 1..Len(sorted) : compareTimeline(sorted[k], x) <= 0}
        n == IF before = {} THEN 0 ELSE SetMax(before)
    IN SubSeq(sorted, 1, n) \o <<x>> \o SubSeq(sorted, n + 1, Len(sorted))

\* timeline.sort(...): Array.prototype.sort is stable
RECURSIVE SortTimeline(_, _)
SortTimeline(timeline, n) ==
    IF n = 0 THEN <<>> ELSE InsertEvent(SortTimeline(timeline, n - 1), timeline[n])

\* (mutant) the root causes of all explanations, unknown ones included
RootCausesOfAll(explanations) ==
    Unique(Field(explanations, "rootCause"), Len(explanations))

\* [...new Set(explanations.filter((e) => e.patternId !== 'unknown').map((e) => e.rootCause))]
RootCauseChain(explanations) ==
    LET known == Filter(explanations, KnownIndices(explanations), Len(explanations))
    IN Unique(Field(known, "rootCause"), Len(known))

\* (mutant) the fixes cut to ten before the duplicates are removed
UniqueFixesSliceFirst(explanations) ==
    LET allFixes == Flatten(Field(explanations, "recommendedFixes"), Len(explanations))
        cut == slice0(allFixes, 10)
    IN Unique(cut, Len(cut))

\* [...new Set(allFixes)].slice(0, 10)
UniqueFixes(explanations) ==
    LET allFixes == Flatten(Field(explanations, "recommendedFixes"), Len(explanations))
    IN slice0(Unique(allFixes, Len(allFixes)), 10)

\* if (explanations.length === 0) return { ... }
EmptySummary ==
    [title |-> "No Logs Provided",
     summary |-> "No log entries were provided for incident analysis.",
     severity |-> "LOW",
     severityScore |-> 0,
     rootCauseChain |-> <<>>,
     affectedSystems |-> <<>>,
     timeline |-> <<>>,
     recommendedActions |-> <<>>,
     totalLogsAnalyzed |-> 0,
     categoryBreakdown |-> <<>>,
     correlations |-> <<>>]

\* buildIncidentSummary past the check for the empty list
SummaryOf(explanations) ==
    LET severityResults == [k \in 1..Len(explanations) |->
                               [level |-> explanations[k].severity,
                                score |-> explanations[k].severityScore,
                                reason |-> ""]]
        aggregatedSeverity == aggregateSeverity(severityResults)
        categoryBreakdown == CategoryBreakdown(explanations, Len(explanations))
        categories == Field(categoryBreakdown, "category")
        affectedSystems == Filter(categories,
                                  {k \in 1..Len(categories) : categories[k] # "unknown"},
                                  Len(categories))
        timeline == [k \in 1..Len(explanations) |->
                        [timestamp |-> explanations[k].timestamp,
                         summary |-> substring0(explanations[k].summary, 150),
                         severity |-> explanations[k].severity,
                         category |-> explanations[k].category]]
        correlations == detectCorrelations(explanations)
    IN [title |-> generateIncidentTitle(explanations, TopCategory(categoryBreakdown),
                                        aggregatedSeverity.level),
        summary |-> generateIncidentSummaryText(explanations, aggregatedSeverity,
                                                affectedSystems, correlations),
        severity |-> aggregatedSeverity.level,
        severityScore |-> aggregatedSeverity.score,
        rootCauseChain |-> RootCauseChain(explanations),
        affectedSystems |-> affectedSystems,
        timeline |-> SortTimeline(timeline, Len(timeline)),
        recommendedActions |-> UniqueFixes(explanations),
        totalLogsAnalyzed |-> Len(explanations),
        categoryBreakdown |-> categoryBreakdown,
        correlations |-> correlations]

\* (mutant) no check for the empty list
buildIncidentSummaryUnguarded(explanations) == SummaryOf(explanations)

buildIncidentSummary(explanations) ==
    IF Len(explanations) = 0 THEN EmptySummary ELSE SummaryOf(explanations)
\* ------------------------------------------------------------------------
\* Service (logs/logs.service.ts)
\*
\* The service holds no state of its own (the logger aside); it reads the
\* pattern registry.  An explanation's confidence is in hundredths.
\* ------------------------------------------------------------------------

\* (mutant) the caller's source only fills in for a line that names none
WithSourceUnlessParsed(metadata, source) ==
    IF source # "" /\ metadata.source = "" THEN [metadata EXCEPT !.source = source]
    ELSE metadata

\* LogsService.explainLog
\* if (source) metadata.source = source
WithSource(metadata, source) == IF source # "" THEN [metadata EXCEPT !.source = source] ELSE metadata

\* (mutant) the candidate taken is the last of the list
TopMatchLast(matches) == IF Len(matches) > 0 THEN matches[Len(matches)] ELSE Null

\* matches.length > 0 ? matches[0] : null
TopMatch(matches) == IF Len(matches) > 0 THEN matches[1] ELSE Null

\* calculateSeverity for the rule with the given id, "" for no rule, read from the
\* memo when the memo holds it
Severity(rawLog, id, matchedPattern, logLevel) ==
    IF <<rawLog, id>> \in DOMAIN memo.severity THEN memo.severity[<<rawLog, id>>]
    ELSE calculateSeverity(rawLog, matchedPattern, logLevel)

\* steps 3 and 4 of explainLog: the severity, then the explanation
Explain(rawLog, metadata, topMatch, matchedPattern) ==
    buildExplanation(rawLog, matchedPattern, metadata,
                     Severity(rawLog, IF topMatch # Null THEN topMatch.pattern ELSE "",
                              matchedPattern, metadata.logLevel),
                     IF topMatch # Null THEN topMatch.confidence ELSE 0)

\* step 2 of explainLog: topMatch?.pattern ?? null
ExplainTop(rawLog, metadata, topMatch) ==
    Explain(rawLog, metadata, topMatch,
            IF topMatch # Null THEN LogPattern(topMatch.pattern) ELSE Null)

\* explainLog after step 1 gave parsed, which is a TypeError when the parser raised
ExplainParsed(rawLog, source, parsed) ==
    IF parsed = TypeError THEN TypeError
    ELSE ExplainTop(rawLog, WithSource(parsed, source), TopMatch(findMatchingPatterns(rawLog)))

\* LogsService.explainLog
explainLog(rawLog, source) == ExplainParsed(rawLog, source, ParsedLogMetadata(rawLog))

\* the results, or the exception of the call that raised
AllOrRaised(results) ==
    IF \E k \in 1..Len(results) : results[k] = TypeError THEN TypeError ELSE results

\* (mutant) the batch explained without the caller's source
explainBatchWithoutSource(rawLogs, source) ==
    AllOrRaised([k \in 1..Len(rawLogs) |-> explainLog(rawLogs[k], "")])

\* LogsService.explainBatch: an exception of one explainLog ends the call
explainBatch(rawLogs, source) ==
    AllOrRaised([k \in 1..Len(rawLogs) |-> explainLog(rawLogs[k], source)])

(* The separator the source file holds between the title and the incident   *)
(* context is not a dash but the three characters U+00E2 U+20AC U+201D,     *)
(* written here by their escapes.                                           *)
TitleSeparator == " \\u00E2\\u20AC\\u201D "

\* LogsService.generateIncidentSummary
\* if (incidentContext) summary.title = `${summary.title} <separator> ${incidentContext}`
WithContext(summary, incidentContext) ==
    IF incidentContext # ""
    THEN [summary EXCEPT !.title = @ \o TitleSeparator \o incidentContext]
    ELSE summary

\* the summary of the results of the explainLog calls, or the exception of the call
\* that raised
Summarize(results, incidentContext) ==
    IF \E k \in 1..Len(results) : results[k] = TypeError THEN TypeError
    ELSE WithContext(buildIncidentSummary(results), incidentContext)

\* LogsService.generateIncidentSummary
generateIncidentSummary(rawLogs, incidentContext) ==
    Summarize([k \in 1..Len(rawLogs) |-> explainLog(rawLogs[k], "")], incidentContext)

(* The memo for the sample lines: for every line its parse and the          *)
(* confidence of every rule, and for every line with every rule that        *)
(* matches it, or with no rule, calculateSeverity of the line, the rule and *)
(* the line's log level.                                                    *)
MemoInit ==
    \E parse \in {[rawLog \in SampleLines |-> parseLogLine(rawLog)]} :
    \E confidence \in {[logLine \in SampleLines |->
                           [id \in {patterns[k] : k \in 1..Len(patterns)} |->
                               PatternConfidence(LogPattern(id), logLine)]]} :
        memo = [parse |-> parse,
                confidence |-> confidence,
                severity |->
                    [p \in UNION {{<<l, "">>}
                                  \cup {<<l, patterns[k]>> :
                                           k \in {j \in 1..Len(patterns) :
                                                     confidence[l][patterns[j]] > 0}} :
                                  l \in {s \in SampleLines : parse[s] # TypeError}}
                     |-> calculateSeverity(p[1],
                                           IF p[2] = "" THEN Null ELSE LogPattern(p[2]),
                                           parse[p[1]].logLevel)]]

\* ------------------------------------------------------------------------
\* API keys (user.controller.ts, supabase.service.ts)
\*
\* The controller serves the requests of a user concurrently: a handler
\* runs until it awaits, and another handler may run before the awaited
\* result arrives.  The statements the database executes (select, insert,
\* update, delete) are atomic; each may return an error instead (database
\* unreachable, a constraint, a keyId that is no UUID), which is the
\* environment's choice.  apiKeys.rows are the rows of api_keys of the user,
\* {id, is_active}; an id is the number of the insertion that made the row.
\* apiKeys.configured tells whether onModuleInit created the client.
\* ------------------------------------------------------------------------

\* 'if (existing.length >= 10)'
MaxApiKeys == 10

\* a handler that serves no request
IdleHandler ==
    [op |-> "none", pc |-> "idle", keyId |-> 0, uuid |-> TRUE, existing |-> 0,
     error |-> FALSE, status |-> 0]

\* SupabaseService.isConfigured
isConfigured(service) == service.configured

\* authenticate up to its await: the status it throws, 0 when it goes on to getUser
HeaderStatus(authorization, service) ==
    IF authorization = "" \/ ~(Len(authorization) >= 7 /\ SubSeq(authorization, 1, 7) = "Bearer ")
    THEN 401
    ELSE IF ~isConfigured(service) THEN 400
    ELSE 0

\* authenticate after its await: 'if (error || !user)' throws 401
UserStatus(user) == IF ~user THEN 401 ELSE 0

\* SupabaseService.listApiKeys: the rows of the user, or the Error thrown when the
\* select returned an error
listApiKeys(table, error) ==
    IF error THEN [raised |-> "Error", data |-> {}] ELSE [raised |-> "", data |-> table.rows]

\* (mutant) 'existing.length > 10'
LimitReachedAbove(existing) == existing > MaxApiKeys

\* UserController.createApiKey: 'existing.length >= 10'
LimitReached(existing) == existing >= MaxApiKeys

\* SupabaseService.createApiKey from its insert on: an active row is added, or the
\* insert returned an error, no row is added and an Error is thrown
createApiKey(table, error) ==
    IF error THEN [raised |-> "Error", table |-> table]
    ELSE [raised |-> "",
          table |-> [table EXCEPT
                        !.rows = @ \cup {[id |-> table.inserted + 1, is_active |-> TRUE]},
                        !.inserted = @ + 1]]

\* SupabaseService.revokeApiKey: update({ is_active: false }).eq('id', keyId), and
\* 'return !error'; an update that matches no row is no error
revokeApiKey(table, keyId, error) ==
    IF error THEN [success |-> FALSE, table |-> table]
    ELSE [success |-> TRUE,
          table |-> [table EXCEPT
                        !.rows = {IF row.id = keyId THEN [row EXCEPT !.is_active = FALSE]
                                  ELSE row : row \in table.rows}]]

\* SupabaseService.deleteApiKey: delete().eq('id', keyId), and 'return !error'
deleteApiKey(table, keyId, error) ==
    IF error THEN [success |-> FALSE, table |-> table]
    ELSE [success |-> TRUE,
          table |-> [table EXCEPT !.rows = {row \in table.rows : row.id # keyId}]]
\* ------------------------------------------------------------------------
\* The scorer on its own: calculateSeverity and aggregateSeverity
\* ------------------------------------------------------------------------

MaxModifiers == 2

MaxLogs == 5

\* makePattern of the scorer's unit tests
makePattern(severity, severityModifiers) ==
    [id |-> "TEST_PATTERN", name |-> "Test Pattern", category |-> "database",
     patterns |-> <<RegExp(Lit("test"), TRUE)>>, keywords |-> <<"test">>, errorCodes |-> <<>>,
     severity |-> severity, severityModifiers |-> severityModifiers,
     explanation |-> [summary |-> "Test summary", rootCause |-> "Test root cause",
                      possibleCauses |-> <<"Cause 1">>, recommendedFixes |-> <<"Fix 1">>]]

ProductionCondition == RegExp(Lit("production"), TRUE)

RepeatedCondition == RegExp(Alt(<<Lit("repeated"), Lit("multiple"), Lit("frequent")>>), TRUE)

SampleModifiers ==
    { [condition |-> ProductionCondition, severity |-> "CRITICAL", reason |-> "Production environment"],
      [condition |-> ProductionCondition, severity |-> "LOW", reason |-> "Production, low"],
      [condition |-> RepeatedCondition, severity |-> "HIGH", reason |-> "Repeated"],
      [condition |-> RepeatedCondition, severity |-> "CRITICAL", reason |-> "Repeated, critical"] }

ScorerLines ==
    { "", "test log", "test log in production", "prod outage repeated security breach",
      "test error repeated 10 times", "multiple dataloss in product" }

\* modifiers whose trigger is no context or repetition word, two of them with the
\* same severity
RootCondition == RegExp(Alt(<<Lit("root"), Lit("admin")>>), TRUE)

RootModifiers ==
    { [condition |-> RootCondition, severity |-> "HIGH", reason |-> "Privileged account"],
      [condition |-> RootCondition, severity |-> "CRITICAL", reason |-> "Root account"],
      [condition |-> RootCondition, severity |-> "CRITICAL", reason |-> "Administrator account"] }

RootLines == {"test log", "test login as root"}

\* modifiers whose condition repeats a group that can match the empty string:
\* /(?:a?)+/, /(?:a*)+b/ and /(?:a?){2}c/
EmptyIterationModifiers ==
    { [condition |-> RegExp(Plus(Cat(<<Opt(Lit("a"))>>)), FALSE),
       severity |-> "MEDIUM", reason |-> "Any line"],
      [condition |-> RegExp(Cat(<<Plus(Cat(<<Star(Lit("a"))>>)), Lit("b")>>), FALSE),
       severity |-> "CRITICAL", reason |-> "A line with b"],
      [condition |-> RegExp(Cat(<<Rep(Cat(<<Opt(Lit("a"))>>), 2, 2), Lit("c")>>), FALSE),
       severity |-> "HIGH", reason |-> "A line with c"] }

EmptyIterationLines == {"b", "ac", "x"}

LogLevelWords ==
    { "EMERG", "EMERGENCY", "ALERT", "CRIT", "CRITICAL", "ERR", "ERROR", "WARN", "WARNING",
      "NOTICE", "INFO", "DEBUG", "TRACE", "FATAL", "VERBOSE" }

\* levels given with a matched pattern: absent, one of each family, one in lower case
ScorerLevels == {"", "FATAL", "ERROR", "WARN", "INFO", "error"}

CalculateSeverityRequests ==
    { [op |-> "calculateSeverity", rawLog |-> l, matchedPattern |-> makePattern(sv, ms),
       extractedLogLevel |-> lv] :
        l \in ScorerLines, sv \in SeverityLevels,
        ms \in SeqsUpTo(SampleModifiers, MaxModifiers), lv \in ScorerLevels }
    \cup
    { [op |-> "calculateSeverity", rawLog |-> l, matchedPattern |-> makePattern(sv, ms),
       extractedLogLevel |-> lv] :
        l \in RootLines, sv \in SeverityLevels,
        ms \in SeqsUpTo(RootModifiers, MaxModifiers), lv \in {"", "ERROR"} }
    \cup
    { [op |-> "calculateSeverity", rawLog |-> l, matchedPattern |-> makePattern(sv, ms),
       extractedLogLevel |-> ""] :
        l \in EmptyIterationLines, sv \in {"LOW", "HIGH"},
        ms \in SeqsUpTo(EmptyIterationModifiers, MaxModifiers) }
    \cup
    { [op |-> "calculateSeverity", rawLog |-> l, matchedPattern |-> Null,
       extractedLogLevel |-> lv] :
        l \in {"", "random log"}, lv \in LogLevelWords \cup {"", "fatal", "SEVERE"} }

SampleScores == {15, 60, 65, 70, 85, 90}

AggregateSeverityRequests ==
    { [op |-> "aggregateSeverity",
       scores |-> [k \in DOMAIN sc |-> [level |-> scoreToLevel(sc[k]), score |-> sc[k], reason |-> ""]]] :
        sc \in SeqsUpTo(SampleScores, MaxLogs) }

ScorerInit ==
    /\ RegistryInit
    /\ KeyServiceAtRest
    /\ memo = NoMemo
    /\ probe = NoProbe
    /\ pc = "call"
    /\ req \in CalculateSeverityRequests \cup AggregateSeverityRequests
    /\ resp = NoResponse

CalculateSeverity ==
    /\ pc = "call"
    /\ req.op = "calculateSeverity"
    /\ resp' = calculateSeverity(req.rawLog, req.matchedPattern, req.extractedLogLevel)
    /\ pc' = "return"
    /\ NoteOtherCall
    /\ UNCHANGED <<req, patterns, keywordIndex, memo, apiKeys, handlers>>

AggregateSeverity ==
    /\ pc = "call"
    /\ req.op = "aggregateSeverity"
    /\ resp' = aggregateSeverity(req.scores)
    /\ pc' = "return"
    /\ NoteOtherCall
    /\ UNCHANGED <<req, patterns, keywordIndex, memo, apiKeys, handlers>>

ScorerNext == CalculateSeverity \/ AggregateSeverity

SpecScorer == ScorerInit /\ [][ScorerNext]_vars


\* ------------------------------------------------------------------------
\* The registry on its own: findMatchingPatterns and findCandidatesByKeyword
\* ------------------------------------------------------------------------

\* the sample lines, a line holding an error code ("137") of a rule none of whose
\* regexes matches it, and a line holding four keywords and two error codes of a rule
MatcherLines ==
    SampleLines \cup
    {"2026-02-11T10:30:02Z ERROR Request timeout on /api/v1/users after 1375ms",
     "2026-02-11T10:30:05Z ERROR write EPIPE: broken pipe after read ECONNRESET, connection reset by peer while streaming the response body to client 10.0.0.7"}

FindMatchingPatternsRequests == {[op |-> "findMatchingPatterns", logLine |-> l] : l \in MatcherLines}

FindCandidatesByKeywordRequests ==
    {[op |-> "findCandidatesByKeyword", logLine |-> l] : l \in SampleLines}

MatcherInit ==
    /\ RegistryInit
    /\ KeyServiceAtRest
    /\ memo = NoMemo
    /\ probe = NoProbe
    /\ pc = "call"
    /\ req \in FindMatchingPatternsRequests \cup FindCandidatesByKeywordRequests
    /\ resp = NoResponse

FindMatchingPatterns ==
    /\ pc = "call"
    /\ req.op = "findMatchingPatterns"
    /\ resp' = findMatchingPatterns(req.logLine)
    /\ pc' = "return"
    /\ NoteOtherCall
    /\ UNCHANGED <<req, patterns, keywordIndex, memo, apiKeys, handlers>>

FindCandidatesByKeyword ==
    /\ pc = "call"
    /\ req.op = "findCandidatesByKeyword"
    /\ resp' = findCandidatesByKeyword(req.logLine)
    /\ pc' = "return"
    /\ NoteOtherCall
    /\ UNCHANGED <<req, patterns, keywordIndex, memo, apiKeys, handlers>>

MatcherNext == FindMatchingPatterns \/ FindCandidatesByKeyword

SpecMatcher == MatcherInit /\ [][MatcherNext]_vars

\* ------------------------------------------------------------------------
\* The parser on its own: parseLogLine and severityFromLogLevel
\* ------------------------------------------------------------------------

(* The sample lines and lines for the cases of the timestamp and error-code *)
(* steps: a timestamp repeated in the message, a syslog timestamp ahead of  *)
(* an ISO one, a separator after the timestamp, a common-log timestamp with *)
(* no URL after it, level words where an error code is looked for, and      *)
(* timestamps that the pattern of another field would match, or would keep  *)
(* from matching, if left in the line.                                      *)
ParserLines ==
    SampleLines \cup
    { "2026-02-11T10:30:00Z retry of the job scheduled at 2026-02-11T10:30:00Z failed",
      "Feb 11 10:30:00 myhost app: started at 2026-02-11T10:29:58Z",
      "2026-02-11T10:30:00Z - ERROR something failed",
      "  2026-02-11 10:30:00 : WARN disk usage high  ",
      "11/Feb/2026:10:30:00 +0000 upstream closed",
      "1760000000 INFO heartbeat",
      "ERROR something failed",
      "error code: WARN",
      "EMERGENCY shutdown",
      "Emerg: error=FATAL code=E42",
      "pid 1760000000 worker restarted, previous start 1760000000",
      "user=1760000000 logged in",
      "status 2026-02-11T10:30:00Z 404 for GET /api/items",
      "error code: 1760000000",
      "Feb 11 10:30:00 myhost sshd[4242]: Failed password for user=root port 2222",
      "ERROR2026-02-11T10:30:00ZGET /health",
      "peer 2026-02-11T10:30:00Z10.0.0.1 closed" }

ParseLogLineRequests == {[op |-> "parseLogLine", rawLog |-> l] : l \in ParserLines}

\* a word with its first letter in upper case and the others in lower case
Capitalized(word) ==
    IF Len(word) = 0 THEN ""
    ELSE toUpperCase(SubSeq(word, 1, 1)) \o toLowerCase(SubSeq(word, 2, Len(word)))

\* the level words in upper, lower and mixed case, no level, and words that are none
LevelArguments ==
    LogLevelWords \cup {toLowerCase(w) : w \in LogLevelWords}
        \cup {Capitalized(w) : w \in LogLevelWords} \cup {"", "SEVERE", "severe", "OFF"}

SeverityFromLogLevelRequests ==
    {[op |-> "severityFromLogLevel", logLevel |-> lv] : lv \in LevelArguments}

ParserInit ==
    /\ RegistryInit
    /\ KeyServiceAtRest
    /\ memo = NoMemo
    /\ probe = NoProbe
    /\ pc = "call"
    /\ req \in ParseLogLineRequests \cup SeverityFromLogLevelRequests
    /\ resp = NoResponse

ParseLogLine ==
    /\ pc = "call"
    /\ req.op = "parseLogLine"
    /\ resp' = parseLogLine(req.rawLog)
    /\ pc' = "return"
    /\ NoteOtherCall
    /\ UNCHANGED <<req, patterns, keywordIndex, memo, apiKeys, handlers>>

SeverityFromLogLevel ==
    /\ pc = "call"
    /\ req.op = "severityFromLogLevel"
    /\ resp' = severityFromLogLevel(req.logLevel)
    /\ pc' = "return"
    /\ NoteOtherCall
    /\ UNCHANGED <<req, patterns, keywordIndex, memo, apiKeys, handlers>>

ParserNext == ParseLogLine \/ SeverityFromLogLevel

SpecParser == ParserInit /\ [][ParserNext]_vars

\* ------------------------------------------------------------------------
\* The generator on its own: buildExplanation and buildIncidentSummary
\* ------------------------------------------------------------------------

MaxExplanations == 3

BuildLines ==
    { "", "ERROR: ECONNREFUSED 127.0.0.1:5432", "INFO: server started",
      "Feb 11 10:30:00 myhost nginx[12345]: error occurred",
      "GET /api/v1/users 200 OK",
      "FATAL: password authentication failed for user \"admin\"",
      "2026-02-11T10:30:02Z ERROR Request timeout on /api/v1/users after 30000ms" }

BuildRules == {"DB_CONN_REFUSED", "SYS_OOM"}

BuildSeverities ==
    { [level |-> "HIGH", score |-> 70, reason |-> "Base severity for pattern: HIGH"],
      [level |-> "MEDIUM", score |-> 40, reason |-> "No matching pattern found; severity based on log level"] }

\* in hundredths
BuildConfidences == {0, 50, 99}

\* makeMetadata of the generator's unit tests, with an override for logLevel
makeMetadata(logLevel) ==
    [timestamp |-> "", logLevel |-> logLevel, source |-> "", pid |-> "", errorCode |-> "",
     ipAddress |-> "", port |-> "", username |-> "", filePath |-> "", httpStatus |-> "",
     httpMethod |-> "", url |-> "", messageBody |-> "test message"]

\* the levels the parser extracts, none, one in lower case and one it does not know
UnknownLevels == LogLevelWords \cup {"", "warn", "SEVERE"}

BuildExplanationRequests ==
    { [op |-> "buildExplanation", rawLog |-> l, matchedPattern |-> p,
       metadata |-> ParsedLogMetadata(l), severity |-> sv, confidence |-> c] :
        l \in BuildLines, p \in {Null} \cup {LogPattern(id) : id \in BuildRules},
        sv \in BuildSeverities, c \in BuildConfidences }
    \cup
    { [op |-> "buildExplanation", rawLog |-> "random text", matchedPattern |-> Null,
       metadata |-> makeMetadata(lv), severity |-> sv, confidence |-> 0] :
        lv \in UnknownLevels, sv \in BuildSeverities }

(* The lines whose explanations are summarised: two rules at one timestamp, *)
(* a later timestamp, timestamps that differ in the sign of the offset,     *)
(* and lines without a timestamp, matched and unmatched.                    *)
IncidentLines ==
    { "2026-02-11T10:30:00Z ERROR Connection refused to database at 10.0.1.5:5432",
      "2026-02-11T10:30:00Z ERROR [database] FATAL: password authentication failed for user \"admin\"",
      "2026-02-11T10:32:00Z ERROR: third event",
      "2026-02-11T10:30:00+05:30 ERROR something failed",
      "2026-02-11T10:30:00-08:00 ERROR Request timeout on /api/v1/users after 30000ms",
      "FATAL: out of memory",
      "Something completely random and unknown happened" }

\* the explanations the service builds for them
IncidentExplanations == {explainLog(l, "") : l \in IncidentLines}

MaxMade == 3

\* makeExplanation of the generator's unit tests, with overrides for category and
\* patternId: an explanation without timestamp and source
makeExplanation(category, patternId) ==
    [rawLog |-> "test log",
     patternId |-> patternId,
     summary |-> "Test summary for the incident timeline",
     category |-> category,
     severity |-> "HIGH",
     severityScore |-> 70,
     rootCause |-> "Test root cause",
     possibleCauses |-> <<"Cause 1">>,
     recommendedFixes |-> <<"Fix 1">>,
     metadata |-> <<>>,
     timestamp |-> "",
     source |-> "",
     confidence |-> 85,
     engine |-> "rule-based"]

\* the categories detectCorrelations looks for, one it does not, and one whose name
\* holds an underscore
MadeCategories ==
    { "database", "timeout", "memory", "process", "authentication", "security", "dns",
      "network", "disk", "configuration", "application", "api", "ssl_tls" }

MadeExplanations ==
    {makeExplanation(c, "TEST_PATTERN") : c \in MadeCategories}
        \cup {makeExplanation("api", "API_TIMEOUT")}

\* lines whose timestamps differ in the white space between date and time
WhiteSpaceLines ==
    { "2026-02-11\t10:29:00 ERROR Connection refused to database at 10.0.1.5:5432",
      "2026-02-11 10:29:00 ERROR: third event",
      "2026-02-11T10:30:00Z ERROR Connection refused to database at 10.0.1.5:5432" }

WhiteSpaceExplanations == {explainLog(l, "") : l \in WhiteSpaceLines}

BuildIncidentSummaryRequests ==
    { [op |-> "buildIncidentSummary", explanations |-> es] :
        es \in SeqsUpTo(IncidentExplanations, MaxExplanations)
                  \cup SeqsUpTo(MadeExplanations, MaxMade)
                  \cup [1..2 -> WhiteSpaceExplanations] }

GeneratorInit ==
    /\ RegistryInit
    /\ KeyServiceAtRest
    /\ MemoInit
    /\ probe = NoProbe
    /\ pc = "call"
    /\ req \in BuildExplanationRequests \cup BuildIncidentSummaryRequests
    /\ resp = NoResponse

BuildExplanation ==
    /\ pc = "call"
    /\ req.op = "buildExplanation"
    /\ resp' = buildExplanation(req.rawLog, req.matchedPattern, req.metadata, req.severity,
                                req.confidence)
    /\ pc' = "return"
    /\ NoteOtherCall
    /\ UNCHANGED <<req, patterns, keywordIndex, memo, apiKeys, handlers>>

BuildIncidentSummary ==
    /\ pc = "call"
    /\ req.op = "buildIncidentSummary"
    /\ resp' = buildIncidentSummary(req.explanations)
    /\ pc' = "return"
    /\ NoteOtherCall
    /\ UNCHANGED <<req, patterns, keywordIndex, memo, apiKeys, handlers>>

GeneratorNext == BuildExplanation \/ BuildIncidentSummary

SpecGenerator == GeneratorInit /\ [][GeneratorNext]_vars

\* ------------------------------------------------------------------------
\* buildIncidentSummary on lists given in every order
\* ------------------------------------------------------------------------

\* the longest list that is reordered
MaxReordered == 3

\* explanations of the service, with and without timestamp, matched and unmatched,
\* and two of the unit tests that differ in their category only
ReorderedExplanations ==
    IncidentExplanations
        \cup {makeExplanation("database", "TEST_PATTERN"), makeExplanation("disk", "TEST_PATTERN")}

ReorderedRequests ==
    { [op |-> "buildIncidentSummary", explanations |-> es] :
        es \in SeqsUpTo(ReorderedExplanations, MaxReordered) }

ReorderInit ==
    /\ RegistryInit
    /\ KeyServiceAtRest
    /\ MemoInit
    /\ probe = NoProbe
    /\ pc = "call"
    /\ req \in ReorderedRequests
    /\ resp = NoResponse

ReorderNext == BuildIncidentSummary

SpecReorder == ReorderInit /\ [][ReorderNext]_vars

\* ------------------------------------------------------------------------
\* The engine as a whole: calls served one after another
\* ------------------------------------------------------------------------

MaxBatch == 2

Sources == {"", "production-api-server-01"}

IncidentContexts == {"", "API outage reported at 10:30 UTC"}

BatchLines ==
    { "ERROR: ECONNREFUSED 127.0.0.1:5432", "Something completely random and unknown happened",
      "EADDRINUSE ECONNRESET" }

ExplainLogRequests ==
    {[op |-> "explainLog", rawLog |-> l, source |-> s] : l \in SampleLines, s \in Sources}

ExplainBatchRequests ==
    { [op |-> "explainBatch", rawLogs |-> ls, source |-> s] :
        ls \in SeqsUpTo(BatchLines, MaxBatch), s \in Sources }

GenerateIncidentSummaryRequests ==
    { [op |-> "generateIncidentSummary", rawLogs |-> ls, incidentContext |-> c] :
        ls \in SeqsUpTo(BatchLines, MaxBatch), c \in IncidentContexts }

Requests ==
    ExplainLogRequests \cup ExplainBatchRequests \cup GenerateIncidentSummaryRequests
        \cup FindMatchingPatternsRequests \cup BuildExplanationRequests

\* the lines whose explanations are compared from call to call
ProbeLines ==
    { "", "EADDRINUSE ECONNRESET", "EPIPE throttling", "ENOMEM EPIPE",
      "ERROR: ECONNREFUSED 127.0.0.1:5432", "Something completely random and unknown happened",
      "2026-02-11T10:30:00Z ERROR ECONNREFUSED 127.0.0.1:5432",
      "Feb 11 10:30:00 myhost nginx[12345]: error occurred" }

Init ==
    /\ pc = "idle"
    /\ req = NoRequest
    /\ resp = NoResponse
    /\ RegistryInit
    /\ KeyServiceAtRest
    /\ MemoInit
    /\ probe \in {[rawLog |-> l, source |-> s, explanation |-> NoResponse, step |-> 0] :
                     l \in ProbeLines, s \in Sources}

\* a caller calls the engine
Call ==
    /\ pc = "idle"
    /\ req' \in Requests
    /\ pc' = "call"
    /\ UNCHANGED <<resp, patterns, keywordIndex, probe, memo, apiKeys, handlers>>

\* the caller takes the result
Return ==
    /\ pc = "return"
    /\ pc' = "idle"
    /\ req' = NoRequest
    /\ resp' = NoResponse
    /\ UNCHANGED <<patterns, keywordIndex, probe, memo, apiKeys, handlers>>

\* the first rule of a list moved to its front
Promote(rules, id) ==
    <<id>> \o SelectSeq(rules, LAMBDA r : r # id)

\* (mutant) a registry that adjusts itself: the rule explainLog chose moves to the front
ExplainLogPromoting ==
    /\ pc = "call"
    /\ req.op = "explainLog"
    /\ resp' = explainLog(req.rawLog, req.source)
    /\ pc' = "return"
    /\ probe' = IF probe # NoProbe /\ probe.rawLog = req.rawLog /\ probe.source = req.source
                THEN (IF probe.step = 0
                      THEN [probe EXCEPT !.explanation = resp', !.step = 1]
                      ELSE IF probe.step = 2 THEN [probe EXCEPT !.step = 3]
                      ELSE probe)
                ELSE IF probe # NoProbe /\ probe.step = 1 THEN [probe EXCEPT !.step = 2]
                ELSE probe
    /\ patterns' = IF resp' # TypeError /\ resp'.patternId # "unknown"
                   THEN Promote(patterns, resp'.patternId) ELSE patterns
    /\ UNCHANGED <<req, keywordIndex, memo, apiKeys, handlers>>

ExplainLog ==
    /\ pc = "call"
    /\ req.op = "explainLog"
    /\ resp' = explainLog(req.rawLog, req.source)
    /\ pc' = "return"
    /\ probe' = IF probe # NoProbe /\ probe.rawLog = req.rawLog /\ probe.source = req.source
                THEN (IF probe.step = 0
                      THEN [probe EXCEPT !.explanation = resp', !.step = 1]
                      ELSE IF probe.step = 2 THEN [probe EXCEPT !.step = 3]
                      ELSE probe)
                ELSE IF probe # NoProbe /\ probe.step = 1 THEN [probe EXCEPT !.step = 2]
                ELSE probe
    /\ UNCHANGED <<req, patterns, keywordIndex, memo, apiKeys, handlers>>

ExplainBatch ==
    /\ pc = "call"
    /\ req.op = "explainBatch"
    /\ resp' = explainBatch(req.rawLogs, req.source)
    /\ pc' = "return"
    /\ NoteOtherCall
    /\ UNCHANGED <<req, patterns, keywordIndex, memo, apiKeys, handlers>>

GenerateIncidentSummary ==
    /\ pc = "call"
    /\ req.op = "generateIncidentSummary"
    /\ resp' = generateIncidentSummary(req.rawLogs, req.incidentContext)
    /\ pc' = "return"
    /\ NoteOtherCall
    /\ UNCHANGED <<req, patterns, keywordIndex, memo, apiKeys, handlers>>

Next ==
    \/ Call
    \/ ExplainLog
    \/ ExplainBatch
    \/ GenerateIncidentSummary
    \/ FindMatchingPatterns
    \/ BuildExplanation
    \/ Return

Spec == Init /\ [][Next]_vars

\* ------------------------------------------------------------------------
\* The API-key requests of one user, served concurrently
\* ------------------------------------------------------------------------

\* the requests served at a time
MaxHandlers == 2

\* the keys inserted in a run
MaxInserted == 11

\* the Authorization headers: none, another scheme, a bearer token
Authorizations == {"", "Basic abc", "Bearer token"}

\* the keyId of a revoke or delete request: the oldest key of the user, or a UUID no
\* row has (0), or a string that is no UUID (uuid FALSE)
KeyIds(table) ==
    {[keyId |-> 0, uuid |-> TRUE], [keyId |-> 0, uuid |-> FALSE]}
        \cup (IF table.rows = {} THEN {}
              ELSE {[keyId |-> SetMin({row.id : row \in table.rows}), uuid |-> TRUE]})

\* the errors a statement may return: any, and always one for a keyId that is no UUID
StatementErrors(uuid) == IF uuid THEN BOOLEAN ELSE {TRUE}

\* the create requests that may still insert
Creating ==
    {h \in 1..MaxHandlers : handlers[h].op = "createApiKey"
                               /\ handlers[h].pc \notin {"inserted", "done"}}

KeysInit ==
    /\ RegistryInit
    /\ memo = NoMemo
    /\ probe = NoProbe
    /\ pc = "idle"
    /\ req = NoRequest
    /\ resp = NoResponse
    /\ apiKeys \in {[configured |-> c, rows |-> {}, inserted |-> 0] : c \in BOOLEAN}
    /\ handlers = [h \in 1..MaxHandlers |-> IdleHandler]

EngineUnchanged == UNCHANGED <<pc, req, resp, patterns, keywordIndex, probe, memo>>

\* the handler ends with a status
Done(h, op, existing, status) ==
    handlers' = [handlers EXCEPT ![h] = [IdleHandler EXCEPT !.op = op, !.pc = "done",
                                                          !.existing = existing,
                                                          !.status = status]]

\* the handler awaits
Await(h, awaited) == handlers' = [handlers EXCEPT ![h].pc = awaited]

\* a create request arrives; authenticate runs up to 'await client.auth.getUser(token)'
RequestCreate(h) ==
    /\ handlers[h].pc = "idle"
    /\ apiKeys.inserted + Cardinality(Creating) < MaxInserted
    /\ \E authorization \in Authorizations :
           IF HeaderStatus(authorization, apiKeys) # 0
           THEN Done(h, "createApiKey", 0, HeaderStatus(authorization, apiKeys))
           ELSE handlers' = [handlers EXCEPT ![h] = [IdleHandler EXCEPT !.op = "createApiKey",
                                                                      !.pc = "getUser"]]
    /\ UNCHANGED apiKeys
    /\ EngineUnchanged

\* a revoke or delete request arrives; authenticate runs up to its await
RequestRevokeOrDelete(h) ==
    /\ handlers[h].pc = "idle"
    /\ \E op \in {"revokeApiKey", "deleteApiKey"}, id \in KeyIds(apiKeys),
          authorization \in Authorizations :
           IF HeaderStatus(authorization, apiKeys) # 0
           THEN Done(h, op, 0, HeaderStatus(authorization, apiKeys))
           ELSE handlers' = [handlers EXCEPT ![h] = [IdleHandler EXCEPT !.op = op,
                                                                      !.keyId = id.keyId,
                                                                      !.uuid = id.uuid,
                                                                      !.pc = "getUser"]]
    /\ UNCHANGED apiKeys
    /\ EngineUnchanged

\* getUser answers: authenticate throws 401 or returns the user, and the handler sends
\* its first statement
GetUser(h) ==
    /\ handlers[h].pc = "getUser"
    /\ \E user \in BOOLEAN :
           IF UserStatus(user) # 0
           THEN Done(h, handlers[h].op, 0, UserStatus(user))
           ELSE Await(h, "authenticated")
    /\ UNCHANGED apiKeys
    /\ EngineUnchanged

\* createApiKey: the select of 'await this.supabase.listApiKeys(userId)' is executed
ListApiKeys(h) ==
    /\ handlers[h].op = "createApiKey"
    /\ handlers[h].pc = "authenticated"
    /\ \E error \in StatementErrors(TRUE) :
           handlers' = [handlers EXCEPT
                           ![h].existing = Cardinality(listApiKeys(apiKeys, error).data),
                           ![h].error = listApiKeys(apiKeys, error).raised # "",
                           ![h].pc = "listed"]
    /\ UNCHANGED apiKeys
    /\ EngineUnchanged

\* createApiKey: listApiKeys threw, the request ends with status 500
ListFailed(h) ==
    /\ handlers[h].op = "createApiKey"
    /\ handlers[h].pc = "listed"
    /\ handlers[h].error
    /\ Done(h, "createApiKey", 0, 500)
    /\ UNCHANGED apiKeys
    /\ EngineUnchanged

\* createApiKey: 'throw new BadRequestException({ statusCode: 400, ... })'
RejectCreate(h) ==
    /\ handlers[h].op = "createApiKey"
    /\ handlers[h].pc = "listed"
    /\ ~handlers[h].error
    /\ LimitReached(handlers[h].existing)
    /\ Done(h, "createApiKey", handlers[h].existing, 400)
    /\ UNCHANGED apiKeys
    /\ EngineUnchanged

\* createApiKey: the limit test passes and SupabaseService.createApiKey runs up to
\* 'await import("crypto")'
ImportCrypto(h) ==
    /\ handlers[h].op = "createApiKey"
    /\ handlers[h].pc = "listed"
    /\ ~handlers[h].error
    /\ ~LimitReached(handlers[h].existing)
    /\ Await(h, "import")
    /\ UNCHANGED apiKeys
    /\ EngineUnchanged

\* SupabaseService.createApiKey: the key is drawn, 'await this.hashKey(rawKey)'
HashKey(h) ==
    /\ handlers[h].pc = "import"
    /\ Await(h, "hashKey")
    /\ UNCHANGED apiKeys
    /\ EngineUnchanged

\* SupabaseService.createApiKey: the hash is there, the insert is sent
SendInsert(h) ==
    /\ handlers[h].pc = "hashKey"
    /\ Await(h, "insert")
    /\ UNCHANGED apiKeys
    /\ EngineUnchanged

\* SupabaseService.createApiKey: the insert is executed
InsertApiKey(h) ==
    /\ handlers[h].pc = "insert"
    /\ \E error \in StatementErrors(TRUE) :
           /\ apiKeys' = createApiKey(apiKeys, error).table
           /\ handlers' = [handlers EXCEPT ![h].error = createApiKey(apiKeys, error).raised # "",
                                           ![h].pc = "inserted"]
    /\ EngineUnchanged

\* createApiKey: the key is returned with status 201, or the Error thrown ends the
\* request with status 500
Created(h) ==
    /\ handlers[h].pc = "inserted"
    /\ Done(h, "createApiKey", handlers[h].existing, IF handlers[h].error THEN 500 ELSE 201)
    /\ UNCHANGED apiKeys
    /\ EngineUnchanged

\* revokeApiKey: the update of 'await this.supabase.revokeApiKey(userId, keyId)' is
\* executed
RevokeApiKey(h) ==
    /\ handlers[h].op = "revokeApiKey"
    /\ handlers[h].pc = "authenticated"
    /\ \E error \in StatementErrors(handlers[h].uuid) :
           /\ apiKeys' = revokeApiKey(apiKeys, handlers[h].keyId, error).table
           /\ handlers' = [handlers EXCEPT
                              ![h].error = ~revokeApiKey(apiKeys, handlers[h].keyId, error).success,
                              ![h].pc = "answered"]
    /\ EngineUnchanged

\* deleteApiKey: the delete of 'await this.supabase.deleteApiKey(userId, keyId)' is
\* executed
DeleteApiKey(h) ==
    /\ handlers[h].op = "deleteApiKey"
    /\ handlers[h].pc = "authenticated"
    /\ \E error \in StatementErrors(handlers[h].uuid) :
           /\ apiKeys' = deleteApiKey(apiKeys, handlers[h].keyId, error).table
           /\ handlers' = [handlers EXCEPT
                              ![h].error = ~deleteApiKey(apiKeys, handlers[h].keyId, error).success,
                              ![h].pc = "answered"]
    /\ EngineUnchanged

\* revokeApiKey, deleteApiKey: 'if (!success) throw new BadRequestException', else 200
RevokedOrDeleted(h) ==
    /\ handlers[h].pc = "answered"
    /\ Done(h, handlers[h].op, 0, IF handlers[h].error THEN 400 ELSE 200)
    /\ UNCHANGED apiKeys
    /\ EngineUnchanged

\* the response is sent
Respond(h) ==
    /\ handlers[h].pc = "done"
    /\ handlers' = [handlers EXCEPT ![h] = IdleHandler]
    /\ UNCHANGED apiKeys
    /\ EngineUnchanged

KeysNext ==
    \E h \in 1..MaxHandlers :
        \/ RequestCreate(h)
        \/ RequestRevokeOrDelete(h)
        \/ GetUser(h)
        \/ ListApiKeys(h)
        \/ ListFailed(h)
        \/ RejectCreate(h)
        \/ ImportCrypto(h)
        \/ HashKey(h)
        \/ SendInsert(h)
        \/ InsertApiKey(h)
        \/ Created(h)
        \/ RevokeApiKey(h)
        \/ DeleteApiKey(h)
        \/ RevokedOrDeleted(h)
        \/ Respond(h)

SpecKeys == KeysInit /\ [][KeysNext]_vars
\* ------------------------------------------------------------------------
\* Properties of the scorer
\* ------------------------------------------------------------------------

\* the level the thresholds of section 4.3 give a score
ThresholdLevel(score) ==
    CASE score >= 80 -> "CRITICAL"
      [] score >= 55 /\ score < 80 -> "HIGH"
      [] score >= 30 /\ score < 55 -> "MEDIUM"
      [] score < 30 -> "LOW"

Returned(op) == pc = "return" /\ req.op = op

\* C1: every result of calculateSeverity and of aggregateSeverity has an integer
\* score in 0..100 and the level the thresholds give that score.
C1_SeverityBounds ==
    (Returned("calculateSeverity") \/ Returned("aggregateSeverity"))
        => /\ resp.score \in 0..100
           /\ resp.level = ThresholdLevel(resp.score)

\* C1 witness: a matched rule with two modifiers whose boosts run into the clamp.
C1_Witness ==
    /\ Returned("calculateSeverity")
    /\ req.matchedPattern # Null
    /\ Len(req.matchedPattern.severityModifiers) = 2
    /\ req.matchedPattern.severity = "CRITICAL"
    /\ req.rawLog = "prod outage repeated security breach"
    /\ resp.score = 100

NoRuleReturned == Returned("calculateSeverity") /\ req.matchedPattern = Null

CriticalFamily == {"EMERG", "EMERGENCY", "FATAL", "CRIT", "CRITICAL"}

HighFamily == {"ERR", "ERROR", "ALERT"}

MediumFamily == {"WARN", "WARNING", "NOTICE"}

\* C6 as stated: with no rule the score is 90, 70, 40 for the three families and 40
\* for any other extracted level and for no level.
C6_Original ==
    NoRuleReturned =>
        LET upper == toUpperCase(req.extractedLogLevel)
        IN resp.score = (IF upper \in CriticalFamily THEN 90
                         ELSE IF upper \in HighFamily THEN 70
                         ELSE 40)

\* C6 amended: with no rule the score is 90, 70, 40 for the three families, 40 when
\* no level was extracted, and 15 (LOW) for any other extracted level.
C6_NoRuleScore ==
    NoRuleReturned =>
        LET upper == toUpperCase(req.extractedLogLevel)
        IN /\ resp.score = (IF upper \in CriticalFamily THEN 90
                            ELSE IF upper \in HighFamily THEN 70
                            ELSE IF upper \in MediumFamily \/ req.extractedLogLevel = "" THEN 40
                            ELSE 15)
           /\ resp.level = ThresholdLevel(resp.score)

\* C6 witness: an INFO line that matched no rule scores 15.
C6_Witness == NoRuleReturned /\ req.extractedLogLevel = "INFO" /\ resp.score = 15

ScoresOf(scores) == {scores[k].score : k \in 1..Len(scores)}

NumberAtLeast(scores, t) == Cardinality({k \in 1..Len(scores) : scores[k].score >= t})

\* C10: the aggregate score is min(100, M + a + b + c) and the level follows from it.
C10_AggregateFormula ==
    (Returned("aggregateSeverity") /\ Len(req.scores) > 0) =>
        LET M == CHOOSE m \in ScoresOf(req.scores) : \A n \in ScoresOf(req.scores) : n <= m
            a == IF NumberAtLeast(req.scores, 55) >= 3 THEN 5 ELSE 0
            b == IF NumberAtLeast(req.scores, 55) >= 5 THEN 5 ELSE 0
            c == IF NumberAtLeast(req.scores, 80) >= 2 THEN 10 ELSE 0
            sum == M + a + b + c
        IN /\ resp.score = (IF sum > 100 THEN 100 ELSE sum)
           /\ resp.level = ThresholdLevel(resp.score)
           /\ (req.scores = <<[level |-> "CRITICAL", score |-> 85, reason |-> ""],
                              [level |-> "CRITICAL", score |-> 90, reason |-> ""]>>
                  => resp.score = 100)
           /\ ([k \in 1..Len(req.scores) |-> req.scores[k].score] = <<60, 65, 70>>
                  => resp.score = 75)

\* C10 witness: five logs at or above 55, none at 80: both high-count boosts stack.
C10_Witness ==
    /\ Returned("aggregateSeverity")
    /\ [k \in 1..Len(req.scores) |-> req.scores[k].score] = <<60, 65, 70, 60, 60>>
    /\ resp.score = 80


MatchedReturned == Returned("calculateSeverity") /\ req.matchedPattern # Null

\* the modifiers of a rule (by position) whose trigger matches a line
MatchingModifiers(pattern, rawLog) ==
    {k \in 1..Len(pattern.severityModifiers) :
        test(pattern.severityModifiers[k].condition, rawLog)}

\* the greatest of the base score of a rule and the base scores of its modifiers
\* whose trigger matches a line
ModifiedScore(pattern, rawLog) ==
    SetMax({BASE_SCORES[pattern.severity]}
           \cup {BASE_SCORES[pattern.severityModifiers[k].severity] :
                    k \in MatchingModifiers(pattern, rawLog)})

\* the base score of the severity a log level maps to
LevelBase(logLevel) ==
    LET upper == toUpperCase(logLevel)
    IN IF upper \in CriticalFamily THEN 90
       ELSE IF upper \in HighFamily THEN 70
       ELSE IF upper \in MediumFamily THEN 40
       ELSE 15

\* c of C18: 1 when a critical context trigger matches the line
ContextHit(rawLog) ==
    IF \E k \in 1..Len(criticalContextKeywords) : test(criticalContextKeywords[k], rawLog)
    THEN 1 ELSE 0

\* r of C18: 1 when the repetition trigger matches the line
RepetitionHit(rawLog) == IF test(repetitionHints, rawLog) THEN 1 ELSE 0

\* S2 of C18: the half-up rounded mean of S1 and the level's base score when a level
\* was extracted and its base score is greater than S1, S1 otherwise
BlendedScore(S1, logLevel) ==
    IF logLevel # "" /\ LevelBase(logLevel) > S1
    THEN (S1 + LevelBase(logLevel) + 1) \div 2
    ELSE S1

\* C18: for a matched rule the final score is min(100, S2 + 10c + 5r), where S2 blends
\* the score after the modifiers with the base score of the extracted level when that
\* is greater, c is 1 when a critical context word occurs and r is 1 when a repetition
\* word occurs.
C18_ModifiersBlendBoosts ==
    MatchedReturned =>
        resp.score = MinOf(100, BlendedScore(ModifiedScore(req.matchedPattern, req.rawLog),
                                             req.extractedLogLevel)
                                + 10 * ContextHit(req.rawLog) + 5 * RepetitionHit(req.rawLog))

\* C18 witness: a LOW rule raised to HIGH by a modifier, blended with FATAL to 80, with
\* three context words and a repetition word in the line: 80 + 10 + 5.
C18_Witness ==
    /\ MatchedReturned
    /\ req.rawLog = "prod outage repeated security breach"
    /\ req.matchedPattern.severity = "LOW"
    /\ Len(req.matchedPattern.severityModifiers) = 1
    /\ ModifiedScore(req.matchedPattern, req.rawLog) = 70
    /\ req.extractedLogLevel = "FATAL"
    /\ resp.score = 95

\* the reason C19 gives: that of the first matching modifier whose base score is the
\* score after the modifiers when that exceeds the base score of the rule, the
\* base-severity reason otherwise
ModifiedReason(pattern, rawLog) ==
    IF ModifiedScore(pattern, rawLog) > BASE_SCORES[pattern.severity]
    THEN pattern.severityModifiers[
             SetMin({k \in MatchingModifiers(pattern, rawLog) :
                        BASE_SCORES[pattern.severityModifiers[k].severity]
                            = ModifiedScore(pattern, rawLog)})].reason
    ELSE "Base severity: " \o pattern.severity \o " (pattern: " \o pattern.id \o ")"

\* C19: for a matched rule the reason is that of the first modifier reaching the
\* greatest base score among the rule and its matching modifiers (the base-severity
\* reason when none exceeds the rule), the final score is at least that greatest base
\* score, hence at least the base score of the rule, and equals it when no level was
\* extracted and no boost applies.
C19_ModifiersNeverLower ==
    MatchedReturned =>
        /\ resp.reason = ModifiedReason(req.matchedPattern, req.rawLog)
        /\ resp.score >= ModifiedScore(req.matchedPattern, req.rawLog)
        /\ resp.score >= BASE_SCORES[req.matchedPattern.severity]
        /\ (req.extractedLogLevel = "" /\ ContextHit(req.rawLog) = 0
                /\ RepetitionHit(req.rawLog) = 0)
               => resp.score = ModifiedScore(req.matchedPattern, req.rawLog)

\* C19 witness: a MEDIUM rule with two matching CRITICAL modifiers and no boost: the
\* score is 90 and the reason is that of the first.
C19_Witness ==
    /\ MatchedReturned
    /\ req.rawLog = "test login as root"
    /\ req.extractedLogLevel = ""
    /\ req.matchedPattern.severity = "MEDIUM"
    /\ Len(req.matchedPattern.severityModifiers) = 2
    /\ req.matchedPattern.severityModifiers[1].reason = "Administrator account"
    /\ req.matchedPattern.severityModifiers[2].reason = "Root account"
    /\ resp.score = 90
    /\ resp.reason = "Administrator account"

\* ------------------------------------------------------------------------
\* Properties of the matcher, the service and the incident summary
\* ------------------------------------------------------------------------

NoDuplicates(items) == \A j, k \in 1..Len(items) : j # k => items[j] # items[k]

\* where a rule stands in the registry
PositionOf(rules, id) == CHOOSE k \in 1..Len(rules) : rules[k] = id

\* the rules of the registry that match a line
MatchingRules(logLine) ==
    {patterns[k] : k \in {j \in 1..Len(patterns) : MatchConfidence(patterns[j], logLine) > 0}}

\* C2: every candidate findMatchingPatterns returns has a confidence above 0 and at
\* most 1 (1..100 hundredths); buildExplanation with no rule returns confidence 0
\* whatever confidence it is given; explainLog returns confidence 0 when no rule
\* matches the line.
C2_ConfidenceBounds ==
    /\ Returned("findMatchingPatterns") =>
           \A k \in 1..Len(resp) : resp[k].confidence \in 1..100
    /\ (Returned("buildExplanation") /\ req.matchedPattern = Null) => resp.confidence = 0
    /\ (Returned("explainLog") /\ MatchingRules(req.rawLog) = {}) => resp.confidence = 0

\* C2 witness: buildExplanation without a rule, given confidence 0.99, returned 0.
C2_Witness ==
    /\ Returned("buildExplanation")
    /\ req.matchedPattern = Null
    /\ req.confidence = 99
    /\ resp.confidence = 0

\* C3: findMatchingPatterns returns every matching rule once, with its confidence, in
\* non-increasing order of confidence, rules of equal confidence in the order of the
\* registry; explainLog explains a matched line by the rule that is first in the
\* registry among the rules of the highest confidence.
C3_StableDescending ==
    /\ Returned("findMatchingPatterns") =>
           /\ {resp[k].pattern : k \in 1..Len(resp)} = MatchingRules(req.logLine)
           /\ Len(resp) = Cardinality(MatchingRules(req.logLine))
           /\ \A k \in 1..Len(resp) :
                  resp[k].confidence = MatchConfidence(resp[k].pattern, req.logLine)
           /\ \A j, k \in 1..Len(resp) :
                  j < k => \/ resp[j].confidence > resp[k].confidence
                           \/ /\ resp[j].confidence = resp[k].confidence
                              /\ PositionOf(patterns, resp[j].pattern)
                                     < PositionOf(patterns, resp[k].pattern)
    /\ (Returned("explainLog") /\ MatchingRules(req.rawLog) # {}) =>
           /\ resp.patternId \in MatchingRules(req.rawLog)
           /\ resp.confidence = MatchConfidence(resp.patternId, req.rawLog)
           /\ \A id \in MatchingRules(req.rawLog) :
                  \/ MatchConfidence(id, req.rawLog) < resp.confidence
                  \/ /\ MatchConfidence(id, req.rawLog) = resp.confidence
                     /\ PositionOf(patterns, resp.patternId) <= PositionOf(patterns, id)

\* C3 witness: a line on which two rules tie at 0.84 ahead of a third at 0.73.
C3_Witness ==
    /\ Returned("findMatchingPatterns")
    /\ req.logLine = "EPIPE throttling"
    /\ resp = << [pattern |-> "NET_CONN_RESET", confidence |-> 84],
                 [pattern |-> "CLOUD_THROTTLING", confidence |-> 84],
                 [pattern |-> "API_RATE_LIMITED", confidence |-> 73] >>

\* the explainLog call in progress is the one probe names
ProbedCall ==
    /\ req.op = "explainLog"
    /\ probe # NoProbe
    /\ probe.rawLog = req.rawLog
    /\ probe.source = req.source

\* C4: an explainLog call returns what the same call returned the first time,
\* whatever calls were served in between, and the registry and its keyword index stay
\* as the constructor left them.
C4_Deterministic ==
    /\ (pc = "return" /\ ProbedCall /\ probe.step >= 1) => resp = probe.explanation
    /\ patterns = ConstructedPatterns
    /\ keywordIndex = ConstructedKeywordIndex

\* C4 witness: a line on which two rules tie, explained, then another call served,
\* then the line explained again.
C4_Witness ==
    /\ pc = "return"
    /\ ProbedCall
    /\ probe.step = 3
    /\ req.rawLog = "EADDRINUSE ECONNRESET"
    /\ resp.patternId # "unknown"
    /\ Cardinality({id \in MatchingRules(req.rawLog) :
                       MatchConfidence(id, req.rawLog) = resp.confidence}) > 1

GenericRootCause ==
    "Unable to determine root cause ~ this log does not match any known pattern."

\* C5: explainLog returns an explanation and raises nothing; when no rule matches it
\* is the unknown explanation (patternId and category "unknown", confidence 0, engine
\* "rule-based", the generic root cause, three possible causes, three fixes); for the
\* empty line nothing is extracted and the severity is MEDIUM, 40.
C5_AlwaysExplains ==
    Returned("explainLog") =>
        /\ resp # TypeError
        /\ MatchingRules(req.rawLog) = {} =>
               /\ resp.patternId = "unknown"
               /\ resp.category = "unknown"
               /\ resp.confidence = 0
               /\ resp.engine = "rule-based"
               /\ resp.rootCause = GenericRootCause
               /\ Len(resp.possibleCauses) = 3
               /\ Len(resp.recommendedFixes) = 3
        /\ req.rawLog = "" =>
               /\ MatchingRules(req.rawLog) = {}
               /\ resp.metadata = <<>>
               /\ resp.timestamp = ""
               /\ resp.source = req.source
               /\ resp.severity = "MEDIUM"
               /\ resp.severityScore = 40

\* C5 witness: the empty line, explained.
C5_Witness ==
    /\ Returned("explainLog")
    /\ req.rawLog = ""
    /\ req.source = ""
    /\ resp.patternId = "unknown"
    /\ resp.metadata = <<>>
    /\ resp.severity = "MEDIUM"
    /\ resp.severityScore = 40

\* the characters of the timestamp formats in the order of their character codes
CodeUnitOrder == " +-./0123456789:ABCDEFGHIJKLMNOPQRSTUVWXYZabcdefghijklmnopqrstuvwxyz"

CodeUnitRank(c) == IndexIn(CodeUnitOrder, c)

\* a <= b as strings: by the character codes at the first place they differ
StringLeq(a, b) ==
    LET n == MinOf(Len(a), Len(b))
        differ == {k \in 1..n : CharAt(a, k) # CharAt(b, k)}
    IN IF differ = {} THEN Len(a) <= Len(b)
       ELSE CodeUnitRank(CharAt(a, SetMin(differ))) < CodeUnitRank(CharAt(b, SetMin(differ)))

\* the event the timeline holds for an explanation
EventOf(explanation) ==
    [timestamp |-> explanation.timestamp,
     summary |-> substring0(explanation.summary, 150),
     severity |-> explanation.severity,
     category |-> explanation.category]

\* a timestamp comes no later than another in the order of the timeline: timestamps
\* as strings, a missing timestamp after every timestamp
TimelineLeq(a, b) ==
    IF b = "" THEN TRUE
    ELSE IF a = "" THEN FALSE
    ELSE StringLeq(a, b)

Orderings(n) == {p \in [1..n -> 1..n] : \A j, k \in 1..n : j # k => p[j] # p[k]}

\* C7: the timeline is the stable sort of the events of the explanations by timestamp
\* string, events without a timestamp last: one event for each explanation, in
\* non-decreasing order, events that compare equal in the order of the input.
C7_TimelineStableSort ==
    (Returned("buildIncidentSummary") /\ Len(req.explanations) > 0) =>
        /\ Len(resp.timeline) = Len(req.explanations)
        /\ \E p \in Orderings(Len(req.explanations)) :
               /\ \A k \in 1..Len(req.explanations) :
                      resp.timeline[k] = EventOf(req.explanations[p[k]])
               /\ \A j, k \in 1..Len(req.explanations) :
                      j < k =>
                          /\ TimelineLeq(req.explanations[p[j]].timestamp,
                                         req.explanations[p[k]].timestamp)
                          /\ TimelineLeq(req.explanations[p[k]].timestamp,
                                         req.explanations[p[j]].timestamp) => p[j] < p[k]

\* the explanations of a list that a rule explains
KnownOf(explanations) == {k \in 1..Len(explanations) : explanations[k].patternId # "unknown"}

\* those of them whose root cause no earlier one of them has
FirstRootCauses(explanations) ==
    {k \in KnownOf(explanations) :
        \A j \in KnownOf(explanations) :
            j < k => explanations[j].rootCause # explanations[k].rootCause}

\* C8: rootCauseChain has no duplicate and is the root causes of the explanations that
\* a rule explains, in input order, each at its first occurrence only; the root cause
\* of an unknown explanation is in it only when a matched explanation has it too.
C8_RootCauseChain ==
    Returned("buildIncidentSummary") =>
        LET firsts == FirstRootCauses(req.explanations)
        IN /\ NoDuplicates(resp.rootCauseChain)
           /\ Len(resp.rootCauseChain) = Cardinality(firsts)
           /\ \A k \in firsts :
                  resp.rootCauseChain[Cardinality({j \in firsts : j <= k})]
                      = req.explanations[k].rootCause
           /\ \A k \in 1..Len(req.explanations) :
                  (/\ k \notin KnownOf(req.explanations)
                   /\ \E i \in 1..Len(resp.rootCauseChain) :
                          resp.rootCauseChain[i] = req.explanations[k].rootCause)
                      => \E j \in KnownOf(req.explanations) :
                             req.explanations[j].rootCause = req.explanations[k].rootCause

\* C8 witness: one rule twice and an unknown explanation give a chain of one.
C8_Witness ==
    /\ Returned("buildIncidentSummary")
    /\ Len(req.explanations) = 3
    /\ req.explanations[1].patternId # "unknown"
    /\ req.explanations[2].rootCause = req.explanations[1].rootCause
    /\ req.explanations[3].patternId = "unknown"
    /\ resp.rootCauseChain = <<req.explanations[1].rootCause>>

\* the places <<k, i>> of the fixes of a list of explanations, and their order
FixPlaces(explanations) ==
    UNION {{<<k, i>> : i \in 1..Len(explanations[k].recommendedFixes)} :
              k \in 1..Len(explanations)}

PlaceBefore(p, q) == p[1] < q[1] \/ (p[1] = q[1] /\ p[2] < q[2])

FixAt(explanations, p) == explanations[p[1]].recommendedFixes[p[2]]

\* the places that hold a fix no earlier place holds
FirstFixes(explanations) ==
    {p \in FixPlaces(explanations) :
        \A q \in FixPlaces(explanations) :
            PlaceBefore(q, p) => FixAt(explanations, q) # FixAt(explanations, p)}

\* C9: recommendedActions has at most 10 entries and no duplicate, and is the first 10
\* of the fixes of all explanations in input order, each at its first occurrence only.
C9_RecommendedActions ==
    Returned("buildIncidentSummary") =>
        LET firsts == FirstFixes(req.explanations)
        IN /\ Len(resp.recommendedActions) <= 10
           /\ NoDuplicates(resp.recommendedActions)
           /\ Len(resp.recommendedActions) = MinOf(10, Cardinality(firsts))
           /\ \A p \in firsts :
                  LET rank == Cardinality({q \in firsts : PlaceBefore(q, p)}) + 1
                  IN rank <= 10 => resp.recommendedActions[rank] = FixAt(req.explanations, p)

\* C9 witness: a fix repeated among the first ten of the concatenation, and ten actions.
C9_Witness ==
    /\ Returned("buildIncidentSummary")
    /\ Len(resp.recommendedActions) = 10
    /\ \E p, q \in FixPlaces(req.explanations) :
           /\ PlaceBefore(p, q)
           /\ Cardinality({r \in FixPlaces(req.explanations) : PlaceBefore(r, q)}) < 10
           /\ FixAt(req.explanations, p) = FixAt(req.explanations, q)

CategoriesOf(explanations) == {explanations[k].category : k \in 1..Len(explanations)}

PatternIdsOf(explanations) == {explanations[k].patternId : k \in 1..Len(explanations)}

\* the six findings in table order: the categories that must all occur, the rule that
\* may stand in for the second one, and the sentence
Findings ==
    << [both |-> {"database", "timeout"}, orRule |-> "API_TIMEOUT",
        text |-> "Database issues detected alongside API timeouts ~ the database may be the root cause of slow API responses"],
       [both |-> {"memory", "process"}, orRule |-> "",
        text |-> "Memory issues detected alongside process crashes ~ out-of-memory condition likely caused the crash"],
       [both |-> {"authentication", "security"}, orRule |-> "",
        text |-> "Authentication failures alongside security alerts ~ potential coordinated attack"],
       [both |-> {"dns", "network"}, orRule |-> "",
        text |-> "DNS resolution failures detected alongside network errors ~ DNS may be the initial failure point"],
       [both |-> {"disk", "database"}, orRule |-> "",
        text |-> "Disk space issues alongside database errors ~ disk full condition may have caused database failure"],
       [both |-> {"configuration", "application"}, orRule |-> "",
        text |-> "Configuration errors alongside application failures ~ misconfiguration is a likely root cause"] >>

\* a finding applies to a set of categories and a set of rule ids
Applies(finding, categories, patternIds) ==
    \/ finding.both \subseteq categories
    \/ /\ finding.orRule \in patternIds
       /\ "database" \in categories
       /\ finding.orRule # ""

C12_EmptyIncident ==
    (Returned("buildIncidentSummary") /\ req.explanations = <<>>) =>
        /\ resp # TypeError
        /\ resp.title = "No Logs Provided"
        /\ resp.severity = "LOW"
        /\ resp.severityScore = 0
        /\ resp.totalLogsAnalyzed = 0
        /\ resp.categoryBreakdown = <<>>
        /\ resp.rootCauseChain = <<>>
        /\ resp.affectedSystems = <<>>
        /\ resp.timeline = <<>>
        /\ resp.recommendedActions = <<>>
        /\ resp.correlations = <<>>

\* C12 witness: the summary of no explanations.
C12_Witness ==
    /\ Returned("buildIncidentSummary")
    /\ req.explanations = <<>>
    /\ resp.title = "No Logs Provided"
    /\ resp.summary = "No log entries were provided for incident analysis."

\* C13: explainBatch returns one explanation for each line, in the order of the lines,
\* the i-th being what explainLog returns for the i-th line and the source, whatever
\* the other lines of the batch are: it is also what an earlier explainLog call for
\* that line and source returned.
C13_BatchIsMap ==
    Returned("explainBatch") =>
        /\ Len(resp) = Len(req.rawLogs)
        /\ \A i \in 1..Len(req.rawLogs) : resp[i] = explainLog(req.rawLogs[i], req.source)
        /\ (probe.step >= 1 /\ probe.source = req.source) =>
               \A i \in 1..Len(req.rawLogs) :
                   req.rawLogs[i] = probe.rawLog => resp[i] = probe.explanation

\* C13 witness: a batch of two different lines with a source, the second of them
\* explained before on its own.
C13_Witness ==
    /\ Returned("explainBatch")
    /\ Len(req.rawLogs) = 2
    /\ req.source = "production-api-server-01"
    /\ probe.step >= 1
    /\ probe.source = req.source
    /\ req.rawLogs[1] # probe.rawLog
    /\ req.rawLogs[2] = probe.rawLog
    /\ resp[2] = probe.explanation
    /\ resp[1].patternId # resp[2].patternId

\* the fields of the parsed metadata that buildExplanation copies for a matched rule
CopiedFields ==
    { "logLevel", "pid", "ipAddress", "port", "errorCode", "username", "filePath",
      "httpStatus", "httpMethod", "url" }

\* C14: for a matched rule buildExplanation returns the rule's id, category, summary,
\* root cause, possible causes and fixes, the level and score of the given severity,
\* the given confidence, engine "rule-based", and a metadata map with one entry for
\* each of the ten copied fields that the parsed metadata holds, with its value.
C14_KnownExplanation ==
    (Returned("buildExplanation") /\ req.matchedPattern # Null) =>
        /\ resp.patternId = req.matchedPattern.id
        /\ resp.category = req.matchedPattern.category
        /\ resp.summary = req.matchedPattern.explanation.summary
        /\ resp.rootCause = req.matchedPattern.explanation.rootCause
        /\ resp.possibleCauses = req.matchedPattern.explanation.possibleCauses
        /\ resp.recommendedFixes = req.matchedPattern.explanation.recommendedFixes
        /\ resp.severity = req.severity.level
        /\ resp.severityScore = req.severity.score
        /\ resp.confidence = req.confidence
        /\ resp.engine = "rule-based"
        /\ {resp.metadata[k] : k \in 1..Len(resp.metadata)}
               = {[key |-> f, value |-> req.metadata[f]] :
                     f \in {g \in CopiedFields : req.metadata[g] # ""}}
        /\ \A j, k \in 1..Len(resp.metadata) :
               j # k => resp.metadata[j].key # resp.metadata[k].key

\* C14 witness: a rule and a line with a method, a status, a path and a URL but no log
\* level: four entries.
C14_Witness ==
    /\ Returned("buildExplanation")
    /\ req.matchedPattern # Null
    /\ req.rawLog = "GET /api/v1/users 200 OK"
    /\ req.confidence = 99
    /\ Len(resp.metadata) = 4
    /\ resp.patternId = "DB_CONN_REFUSED"

StartsWith(s, prefix) == Len(prefix) <= Len(s) /\ SubSeq(s, 1, Len(prefix)) = prefix

EndsWith(s, suffix) ==
    Len(suffix) <= Len(s) /\ SubSeq(s, Len(s) - Len(suffix) + 1, Len(s)) = suffix

\* C15: explainLog with a source returns what it returns without one, but for the
\* field source, which is the caller's string even when the line names a source;
\* generateIncidentSummary with a context returns what it returns without one, but
\* for the title, which is the title without context followed by the context.
C15_OpaqueCallerStrings ==
    /\ (Returned("explainLog") /\ req.source # "") =>
           /\ resp.source = req.source
           /\ [resp EXCEPT !.source = ""] = [explainLog(req.rawLog, "") EXCEPT !.source = ""]
    /\ (Returned("generateIncidentSummary") /\ req.incidentContext # "") =>
           LET plain == generateIncidentSummary(req.rawLogs, "")
           IN /\ [resp EXCEPT !.title = ""] = [plain EXCEPT !.title = ""]
              /\ StartsWith(resp.title, plain.title)
              /\ EndsWith(resp.title, req.incidentContext)
              /\ Len(resp.title) > Len(plain.title) + Len(req.incidentContext)

\* C15 witness: a syslog line that names its source, explained with a caller's source
\* that holds the word production.
C15_Witness ==
    /\ Returned("explainLog")
    /\ req.rawLog = "Feb 11 10:30:00 myhost nginx[12345]: error occurred"
    /\ req.source = "production-api-server-01"
    /\ explainLog(req.rawLog, "").source = "12345"
    /\ resp.source = "production-api-server-01"
    /\ resp.severityScore = explainLog(req.rawLog, "").severityScore

\* the rules of the registry one of whose regexes matches a line
RulesWithRegexHit(logLine) ==
    {patterns[k] : k \in {j \in 1..Len(patterns) :
        \E r \in 1..Len(LogPattern(patterns[j]).patterns) :
            test(LogPattern(patterns[j]).patterns[r], logLine)}}

\* C16: for a non-empty line findMatchingPatterns returns, each once, the rules one of
\* whose regexes matches the line, and no other rule, whatever keywords and error
\* codes of a rule the line holds.
C16_CandidatesAreRegexHits ==
    (Returned("findMatchingPatterns") /\ req.logLine # "") =>
        /\ {resp[k].pattern : k \in 1..Len(resp)} = RulesWithRegexHit(req.logLine)
        /\ \A j, k \in 1..Len(resp) : j # k => resp[j].pattern # resp[k].pattern
        /\ \A k \in 1..Len(resp) : resp[k].confidence > 0

\* C16 witness: a line that holds a keyword of one rule and an error code of another,
\* neither of them returned, next to a rule that is returned.
C16_Witness ==
    /\ Returned("findMatchingPatterns")
    /\ Len(resp) > 0
    /\ \E j, k \in 1..Len(patterns) :
           /\ KeywordHits(LogPattern(patterns[j]).keywords, req.logLine) > 0
           /\ HasErrorCode(LogPattern(patterns[k]).errorCodes, req.logLine)
           /\ \A i \in 1..Len(resp) : resp[i].pattern \notin {patterns[j], patterns[k]}

\* the keywords of a rule (by position) that occur in a line, letter case aside
KeywordsIn(pattern, logLine) ==
    {k \in 1..Len(pattern.keywords) :
        includes(toLowerCase(logLine), toLowerCase(pattern.keywords[k]))}

\* the declared error codes of a rule (by position) that occur verbatim in a line
ErrorCodesIn(pattern, logLine) ==
    {k \in 1..Len(pattern.errorCodes) : includes(logLine, pattern.errorCodes[k])}

(* The confidence the formula of C17 gives a rule for a line of lineLength  *)
(* characters, times 100 * lineLength and before the rounding: lengths are  *)
(* the lengths matched by its regexes, h its keywords in the line, codes    *)
(* its error codes in the line.                                             *)
FormulaConfidence(lengths, lineLength, h, codes) ==
    MinOf(MinOf(SetMax({MinOf(60 * lineLength + 30 * length, 95 * lineLength) :
                           length \in lengths})
                    + MinOf(5 * h, 15) * lineLength,
                99 * lineLength)
              + (IF codes > 0 THEN 10 * lineLength ELSE 0),
          99 * lineLength)

\* C17: the confidence of a returned rule is the value of the formula (the best regex
\* ratio capped at 0.95, plus the keyword boost capped at 0.15, capped at 0.99, plus
\* 0.10 once when an error code occurs, capped at 0.99) rounded to the nearest
\* hundredth.
C17_ConfidenceFormula ==
    (Returned("findMatchingPatterns") /\ req.logLine # "") =>
        \A k \in 1..Len(resp) :
            \E exact \in {FormulaConfidence(
                              MatchLengths(LogPattern(resp[k].pattern).patterns, req.logLine),
                              Len(req.logLine),
                              Cardinality(KeywordsIn(LogPattern(resp[k].pattern), req.logLine)),
                              Cardinality(ErrorCodesIn(LogPattern(resp[k].pattern), req.logLine)))} :
                /\ 2 * resp[k].confidence * Len(req.logLine) - 2 * exact <= Len(req.logLine)
                /\ 2 * exact - 2 * resp[k].confidence * Len(req.logLine) <= Len(req.logLine)

\* C17 witness: a returned rule with more than three keywords and more than one error
\* code in the line, whose confidence stays below 0.99.
C17_Witness ==
    /\ Returned("findMatchingPatterns")
    /\ \E k \in 1..Len(resp) :
           /\ Cardinality(KeywordsIn(LogPattern(resp[k].pattern), req.logLine)) > 3
           /\ Cardinality(ErrorCodesIn(LogPattern(resp[k].pattern), req.logLine)) > 1
           /\ resp[k].confidence < 99

ErrorLevelSentence ==
    "An error-level log entry was detected but does not match any known pattern. Manual review is recommended."

WarningLevelSentence ==
    "A warning-level log entry was detected but does not match any known pattern. It may indicate a non-critical issue."

\* the sentence for any other level, which names the level, and the one for no level
InformationalSentence(logLevel) ==
    IF logLevel = ""
    THEN "This log entry could not be matched to a known pattern in the knowledge base."
    ELSE "An informational log entry was detected with log level \"" \o toUpperCase(logLevel)
         \o "\". No specific issue pattern was matched."

\* the levels the scorer maps to HIGH or CRITICAL, and those of its warn family that
\* C20 names
ErrorFamilies == {"ERR", "ERROR", "ALERT", "FATAL", "CRIT", "CRITICAL", "EMERG", "EMERGENCY"}

WarnFamily == {"WARN", "WARNING"}

\* C20: on the no-rule path every level the scorer maps to HIGH or CRITICAL (ERR,
\* ERROR, ALERT, FATAL, CRIT, CRITICAL, EMERG, EMERGENCY) yields the error-level
\* sentence, WARN and WARNING yield the warning-level sentence, and any other level or
\* no level yields the informational sentence, which names the level when there is one.
C20_SummaryByFamily ==
    (Returned("buildExplanation") /\ req.matchedPattern = Null) =>
        resp.summary =
            (IF toUpperCase(req.metadata.logLevel) \in ErrorFamilies THEN ErrorLevelSentence
             ELSE IF toUpperCase(req.metadata.logLevel) \in WarnFamily THEN WarningLevelSentence
             ELSE InformationalSentence(req.metadata.logLevel))

\* the number of explanations that carry a category
CountOf(explanations, category) ==
    Cardinality({k \in 1..Len(explanations) : explanations[k].category = category})

\* the explanation at which the category with the highest count is first seen, the
\* earliest such on a tie
TopCategoryAt(explanations) ==
    SetMin({k \in 1..Len(explanations) :
               \A j \in 1..Len(explanations) :
                   CountOf(explanations, explanations[j].category)
                       <= CountOf(explanations, explanations[k].category)})

\* label is category title-cased with underscores replaced by spaces
IsTitleCased(label, category) ==
    /\ Len(label) = Len(category)
    /\ \A i \in 1..Len(category) :
           CharAt(label, i) =
               (IF CharAt(category, i) = "_" THEN " "
                ELSE IF i = 1 \/ CharAt(category, i - 1) = "_"
                        \/ ~IsWordAt(category, i - 1)
                THEN UpperChar(CharAt(category, i))
                ELSE CharAt(category, i))

MatchedIds(explanations) == {explanations[k].patternId : k \in KnownOf(explanations)}

\* C21: the title of a non-empty incident starts with the aggregate severity level and
\* is the Unrecognized-Errors form when no explanation is matched, the first 80
\* characters of the summary of the first matched explanation when the matched ones
\* carry one patternId, and otherwise names the number of distinct matched patternIds
\* and the title-cased category with the highest count, the first seen on a tie.
C21_IncidentTitle ==
    (Returned("buildIncidentSummary") /\ Len(req.explanations) > 0) =>
        /\ StartsWith(resp.title, resp.severity \o " Incident ~ ")
        /\ \E rest \in {SubSeq(resp.title, Len(resp.severity) + 13, Len(resp.title))} :
               IF KnownOf(req.explanations) = {}
               THEN rest = "Unrecognized Errors Detected"
               ELSE IF Cardinality(MatchedIds(req.explanations)) = 1
               THEN /\ Len(rest) <= 80
                    /\ StartsWith(req.explanations[SetMin(KnownOf(req.explanations))].summary, rest)
                    /\ (Len(rest) = 80 \/
                        rest = req.explanations[SetMin(KnownOf(req.explanations))].summary)
               ELSE /\ StartsWith(rest, ToString(Cardinality(MatchedIds(req.explanations)))
                                            \o " issue types detected across ")
                    /\ IsTitleCased(
                           SubSeq(rest,
                                  Len(ToString(Cardinality(MatchedIds(req.explanations)))) + 30,
                                  Len(rest)),
                           req.explanations[TopCategoryAt(req.explanations)].category)

\* C21 witness: two matched patternIds over two categories with one explanation each,
\* the first seen being ssl_tls.
C21_Witness ==
    /\ Returned("buildIncidentSummary")
    /\ Len(req.explanations) = 2
    /\ req.explanations[1].category = "ssl_tls"
    /\ req.explanations[2].patternId = "API_TIMEOUT"
    /\ resp.title = "HIGH Incident ~ 2 issue types detected across Ssl Tls"

RECURSIVE SumCounts(_, _)
SumCounts(categoryBreakdown, n) ==
    IF n = 0 THEN 0 ELSE SumCounts(categoryBreakdown, n - 1) + categoryBreakdown[n].count

\* C22: for a non-empty incident totalLogsAnalyzed is the number of explanations and
\* the sum of the counts of categoryBreakdown; the breakdown has one key for each
\* category some explanation carries, with the number of such explanations;
\* affectedSystems has no duplicates and holds the keys of the breakdown other than
\* "unknown".
C22_BreakdownCounts ==
    (Returned("buildIncidentSummary") /\ Len(req.explanations) > 0) =>
        /\ resp.totalLogsAnalyzed = Len(req.explanations)
        /\ resp.totalLogsAnalyzed = SumCounts(resp.categoryBreakdown, Len(resp.categoryBreakdown))
        /\ {resp.categoryBreakdown[k].category : k \in 1..Len(resp.categoryBreakdown)}
               = CategoriesOf(req.explanations)
        /\ \A j, k \in 1..Len(resp.categoryBreakdown) :
               j # k => resp.categoryBreakdown[j].category # resp.categoryBreakdown[k].category
        /\ \A k \in 1..Len(resp.categoryBreakdown) :
               resp.categoryBreakdown[k].count
                   = CountOf(req.explanations, resp.categoryBreakdown[k].category)
        /\ \A j, k \in 1..Len(resp.affectedSystems) :
               j # k => resp.affectedSystems[j] # resp.affectedSystems[k]
        /\ {resp.affectedSystems[k] : k \in 1..Len(resp.affectedSystems)}
               = CategoriesOf(req.explanations) \ {"unknown"}

\* C22 witness: three explanations, two of one category and one unmatched.
C22_Witness ==
    /\ Returned("buildIncidentSummary")
    /\ Len(req.explanations) = 3
    /\ resp.totalLogsAnalyzed = 3
    /\ Len(resp.categoryBreakdown) = 2
    /\ \E k \in 1..2 : resp.categoryBreakdown[k] = [category |-> "unknown", count |-> 1]
    /\ Len(resp.affectedSystems) = 1

\* the text the fields of a line are looked for in
ScannedText(rawLog) ==
    ScanText(trim(rawLog), FirstMatching(TIMESTAMP_PATTERNS, 1, trim(rawLog)))

\* the upper-cased candidate of error-code pattern k in a text, "" when it has none
ErrorCodeCandidate(scanText, k) ==
    toUpperCase(GroupOf(scanText, match(scanText, ERROR_CODE_PATTERNS[k]), 1))

\* the error-code patterns whose candidate in a text is no level word
AcceptedCandidates(scanText) ==
    {k \in 1..Len(ERROR_CODE_PATTERNS) :
        /\ ErrorCodeCandidate(scanText, k) # ""
        /\ ErrorCodeCandidate(scanText, k) \notin LogLevelWords}

\* C24: the errorCode parseLogLine returns is never one of the fifteen level words in
\* any letter case; when the line holds no common error code it is the candidate of the
\* first extraction pattern whose candidate is no level word, and absent when there is
\* no such pattern.
C24_ErrorCodeIsNoLevelWord ==
    (Returned("parseLogLine") /\ resp # TypeError) =>
        /\ toUpperCase(resp.errorCode) \notin LogLevelWords
        /\ ~test(COMMON_ERROR_CODE_PATTERN, ScannedText(req.rawLog)) =>
               resp.errorCode =
                   (IF AcceptedCandidates(ScannedText(req.rawLog)) = {} THEN ""
                    ELSE ErrorCodeCandidate(ScannedText(req.rawLog),
                                            SetMin(AcceptedCandidates(ScannedText(req.rawLog)))))

\* C24 witness: the candidate of the second pattern is the level word FATAL, and the
\* code the fourth pattern finds is returned.
C24_Witness ==
    /\ Returned("parseLogLine")
    /\ req.rawLog = "Emerg: error=FATAL code=E42"
    /\ ErrorCodeCandidate(ScannedText(req.rawLog), 2) = "FATAL"
    /\ resp.errorCode = "E42"

\* the timestamp formats, in priority order, that occur in a line
TimestampFormats(trimmed) ==
    {k \in 1..Len(TIMESTAMP_PATTERNS) : test(TIMESTAMP_PATTERNS[k], trimmed)}

\* the timestamp token of a line: the leftmost match of the first format that occurs
TimestampToken(trimmed) ==
    IF TimestampFormats(trimmed) = {} THEN ""
    ELSE Matched(trimmed, match(trimmed, TIMESTAMP_PATTERNS[SetMin(TimestampFormats(trimmed))]))

\* where a token first occurs in a line
FirstAt(s, token) ==
    SetMin({i \in 1..(Len(s) - Len(token) + 1) : SubSeq(s, i, i + Len(token) - 1) = token})

\* a line with the first occurrence of a token replaced by a string; the line itself
\* when there is no token
Without(s, token, by) ==
    IF token = "" THEN s
    ELSE SubSeq(s, 1, FirstAt(s, token) - 1) \o by
         \o SubSeq(s, FirstAt(s, token) + Len(token), Len(s))

\* the first character of a string that is no white space, "" when there is none
FirstVisible(s) == IF trim(s) = "" THEN "" ELSE CharAt(trim(s), 1)

\* a string without one leading '-' or ':' and the white space around it
AfterSeparator(s) ==
    IF FirstVisible(s) \in {"-", ":"} THEN trim(SubSeq(trim(s), 2, Len(trim(s)))) ELSE trim(s)

\* the source patterns, in order, that occur in a text
SourceFormats(text) ==
    {k \in 1..Len(SOURCE_PATTERNS) : test(SOURCE_PATTERNS[k], text)}

\* the source a text names: the first or else the second group of the first source
\* pattern that occurs in it, "" when none occurs
SourceIn(text) ==
    IF SourceFormats(text) = {} THEN ""
    ELSE LET m == match(text, SOURCE_PATTERNS[SetMin(SourceFormats(text))])
         IN OrElse(Group(text, m, 1), Group(text, m, 2))

\* the error code a text names: a well-known code, or else the candidate of the first
\* error-code pattern whose candidate is no level word, "" when there is none
ErrorCodeIn(text) ==
    IF test(COMMON_ERROR_CODE_PATTERN, text)
    THEN Group(text, match(text, COMMON_ERROR_CODE_PATTERN), 1)
    ELSE IF AcceptedCandidates(text) = {} THEN ""
         ELSE ErrorCodeCandidate(text, SetMin(AcceptedCandidates(text)))

\* the port a text names: the one that follows the address, or else the one after the
\* word "port", or else the first ":<digits>" that is no part of a time of day
PortIn(text, ipAddress) ==
    OrElse(IF ipAddress = "" THEN ""
           ELSE GroupOf(text, match(text, IpPortPattern(ipAddress)), 1),
           OrElse(GroupOf(text, match(text, ExplicitPortPattern), 1), FallbackPort(text, 1)))

\* the fields parseLogLine looks for in a text, all but timestamp and messageBody
FieldsIn(text) ==
    [logLevel |-> toUpperCase(GroupOf(text, match(text, LOG_LEVEL_PATTERN), 1)),
     source |-> SourceIn(text),
     pid |-> FirstGroupOf(text, match(text, PID_PATTERN)),
     errorCode |-> ErrorCodeIn(text),
     ipAddress |-> GroupOf(text, match(text, IP_PATTERN), 1),
     port |-> PortIn(text, GroupOf(text, match(text, IP_PATTERN), 1)),
     username |-> GroupOf(text, match(text, USERNAME_PATTERN), 1),
     filePath |-> MatchedOf(text, match(text, FILEPATH_PATTERN)),
     httpStatus |-> FirstGroupOf(text, match(text, HTTP_STATUS_PATTERN)),
     httpMethod |-> GroupOf(text, match(text, HTTP_METHOD_PATTERN), 1),
     url |-> MatchedOf(text, match(text, URL_PATTERN))]

\* the fields of the object parseLogLine returns
ParsedFields ==
    {"timestamp", "logLevel", "source", "pid", "errorCode", "ipAddress", "port", "username",
     "filePath", "httpStatus", "httpMethod", "url", "messageBody"}

\* parseLogLine returns the token of the first timestamp format that occurs in the
\* line, wherever it stands, looks for every other field (logLevel, source, pid,
\* errorCode, ipAddress, port, username, filePath, httpStatus, httpMethod, url) in the
\* line with the first occurrence of the token replaced by a space, and returns as
\* messageBody the trimmed line without that occurrence and without one leading
\* separator
TimestampStripped ==
    LET trimmed == trim(req.rawLog)
        token == TimestampToken(trimmed)
        scanText == Without(trimmed, token, " ")
    IN /\ DOMAIN resp = ParsedFields
       /\ resp.timestamp = token
       /\ \A field \in ParsedFields \ {"timestamp", "messageBody"} :
              resp[field] = FieldsIn(scanText)[field]
       /\ resp.messageBody = AfterSeparator(Without(trimmed, token, ""))

\* the fields of a returned object that would differ had they been looked for in the
\* trimmed line as it is, the timestamp token still in it
FieldsTheTokenWouldChange ==
    {field \in ParsedFields \ {"timestamp", "messageBody"} :
        resp[field] # FieldsIn(trim(req.rawLog))[field]}

\* C23 as stated: the timestamp is chosen by format priority, the other fields are
\* extracted from the line without the token, messageBody is the trimmed line without
\* the token and a leading separator, and messageBody does not contain the extracted
\* timestamp.
C23_Original ==
    (Returned("parseLogLine") /\ resp # TypeError) =>
        /\ TimestampStripped
        /\ resp.timestamp # "" => ~includes(resp.messageBody, resp.timestamp)

\* C23 amended: the timestamp is chosen by format priority, the other fields are
\* extracted from the line with the first occurrence of the token replaced by a space,
\* and messageBody is the trimmed line without that occurrence and without one leading
\* separator, so that a timestamp the message repeats stays in messageBody.
C23_TimestampStripped ==
    (Returned("parseLogLine") /\ resp # TypeError) => TimestampStripped

\* C23 witness: a line that names a Unix time after the word "pid" and repeats it;
\* the time is the timestamp, no pid is found in the line without its first occurrence,
\* and messageBody holds the second one.
C23_Witness ==
    /\ Returned("parseLogLine")
    /\ req.rawLog = "pid 1760000000 worker restarted, previous start 1760000000"
    /\ resp.timestamp = "1760000000"
    /\ resp.pid = ""
    /\ FieldsTheTokenWouldChange = {"pid"}
    /\ resp.messageBody = "pid  worker restarted, previous start 1760000000"

\* the rules of the Rule Base one of whose keywords occurs in a line, letter case aside
RulesWithKeywordHit(logLine) ==
    {id \in {RegisteredPatterns[k].id : k \in 1..Len(RegisteredPatterns)} :
        KeywordsIn(LogPattern(id), logLine) # {}}

\* C25: findCandidatesByKeyword returns, each once, the rules one of whose keywords,
\* lower-cased, is a substring of the lower-cased line, as a direct scan of the Rule
\* Base finds them; it returns rules without a confidence and leaves the registry as
\* the constructor built it.
C25_KeywordIndexIsScan ==
    Returned("findCandidatesByKeyword") =>
        /\ {resp[k] : k \in 1..Len(resp)} = RulesWithKeywordHit(req.logLine)
        /\ \A j, k \in 1..Len(resp) : j # k => resp[j] # resp[k]
        /\ patterns = [k \in 1..Len(RegisteredPatterns) |-> RegisteredPatterns[k].id]
        /\ keywordIndex = ConstructedKeywordIndex

\* C25 witness: a rule returned once that has more than one keyword in the line, next
\* to a rule that shares a keyword with an earlier rule.
C25_Witness ==
    /\ Returned("findCandidatesByKeyword")
    /\ \E k \in 1..Len(resp) : Cardinality(KeywordsIn(LogPattern(resp[k]), req.logLine)) > 1
    /\ \E j, k \in 1..Len(resp) :
           /\ j # k
           /\ \E a \in KeywordsIn(LogPattern(resp[j]), req.logLine) :
              \E b \in KeywordsIn(LogPattern(resp[k]), req.logLine) :
                  toLowerCase(LogPattern(resp[j]).keywords[a])
                      = toLowerCase(LogPattern(resp[k]).keywords[b])

\* C26: the user never holds more than 10 API keys, whatever the interleaving of
\* the create, revoke and delete requests, and a create request that finds 10 keys is
\* answered 400.
C26_KeyLimit ==
    /\ Cardinality(apiKeys.rows) <= 10
    /\ \A h \in 1..MaxHandlers :
           (handlers[h].op = "createApiKey" /\ handlers[h].pc = "done"
                /\ handlers[h].existing >= 10) => handlers[h].status = 400

\* the most characters of the line a regex of the rule matches
BestMatch(pattern, logLine) == SetMax(MatchLengths(pattern.patterns, logLine))

\* C27: every candidate findMatchingPatterns returns has a confidence from 0.60 to
\* 0.99; no regex of the rule matches more characters than the line has, so the regex
\* step alone, 0.6 + 0.3 * ratio, lies from 0.60 to 0.90, under its cap of 0.95.
C27_ConfidenceRange ==
    Returned("findMatchingPatterns") =>
        \A k \in 1..Len(resp) :
            /\ resp[k].confidence >= 60
            /\ resp[k].confidence <= 99
            /\ \A length \in MatchLengths(LogPattern(resp[k].pattern).patterns, req.logLine) :
                   /\ length <= Len(req.logLine)
                   /\ 60 * Len(req.logLine) + 30 * length >= 60 * Len(req.logLine)
                   /\ 60 * Len(req.logLine) + 30 * length <= 90 * Len(req.logLine)
                   /\ 60 * Len(req.logLine) + 30 * length < 95 * Len(req.logLine)

\* C27 witness: a candidate at 0.99, whose boosts would have passed 1.00 uncapped: its
\* regex step, three keywords or more and an error code add up to more than 1.00.
C27_Witness ==
    /\ Returned("findMatchingPatterns")
    /\ \E k \in 1..Len(resp) :
           /\ resp[k].confidence = 99
           /\ Cardinality(ErrorCodesIn(LogPattern(resp[k].pattern), req.logLine)) > 0
           /\ 60 * Len(req.logLine) + 30 * BestMatch(LogPattern(resp[k].pattern), req.logLine)
                  + 5 * MinOf(Cardinality(KeywordsIn(LogPattern(resp[k].pattern), req.logLine)), 3)
                        * Len(req.logLine)
                  + 10 * Len(req.logLine) > 100 * Len(req.logLine)

\* the rule that heads the matcher's list for a line some rule matches: the first, in
\* the order of the registry, of the rules with the highest confidence
FirstCandidate(logLine) ==
    CHOOSE id \in MatchingRules(logLine) :
        \A other \in MatchingRules(logLine) \ {id} :
            \/ MatchConfidence(id, logLine) > MatchConfidence(other, logLine)
            \/ /\ MatchConfidence(id, logLine) = MatchConfidence(other, logLine)
               /\ PositionOf(patterns, id) < PositionOf(patterns, other)

\* the severity calculateSeverity gives a line for a rule and the line's own level
SeverityFor(rawLog, id) ==
    Severity(rawLog, id, LogPattern(id), ParsedLogMetadata(rawLog).logLevel)

\* C28: in an explanation explainLog returns, patternId "unknown", category "unknown",
\* confidence 0 and an empty list of candidates for the line go together; otherwise
\* the id, category, summary and root cause are those of the matcher's first
\* candidate, and the severity is the one computed for the line with that rule.
C28_UnknownIffNoCandidate ==
    (Returned("explainLog") /\ resp # TypeError) =>
        /\ (resp.patternId = "unknown") <=> (MatchingRules(req.rawLog) = {})
        /\ (resp.category = "unknown") <=> (MatchingRules(req.rawLog) = {})
        /\ (resp.confidence = 0) <=> (MatchingRules(req.rawLog) = {})
        /\ MatchingRules(req.rawLog) # {} =>
               /\ resp.patternId = FirstCandidate(req.rawLog)
               /\ resp.category = LogPattern(FirstCandidate(req.rawLog)).category
               /\ resp.summary = LogPattern(FirstCandidate(req.rawLog)).explanation.summary
               /\ resp.rootCause = LogPattern(FirstCandidate(req.rawLog)).explanation.rootCause
               /\ resp.confidence = MatchConfidence(FirstCandidate(req.rawLog), req.rawLog)
               /\ resp.severity = SeverityFor(req.rawLog, FirstCandidate(req.rawLog)).level
               /\ resp.severityScore = SeverityFor(req.rawLog, FirstCandidate(req.rawLog)).score

\* C28 witness: a line several rules match, explained by the first candidate, while
\* another candidate would have given another severity score.
C28_Witness ==
    /\ Returned("explainLog")
    /\ resp # TypeError
    /\ MatchingRules(req.rawLog) # {}
    /\ resp.patternId = FirstCandidate(req.rawLog)
    /\ \E other \in MatchingRules(req.rawLog) :
           /\ other # resp.patternId
           /\ LogPattern(other).category # resp.category
           /\ SeverityFor(req.rawLog, other).score # resp.severityScore

\* the fifteen level words with the severity of each
LevelTable ==
    [word \in {"EMERG", "EMERGENCY", "FATAL", "CRIT", "CRITICAL", "ERR", "ERROR", "ALERT",
               "WARN", "WARNING", "NOTICE", "INFO", "DEBUG", "TRACE", "VERBOSE"} |->
        IF word \in {"EMERG", "EMERGENCY", "FATAL", "CRIT", "CRITICAL"} THEN "CRITICAL"
        ELSE IF word \in {"ERR", "ERROR", "ALERT"} THEN "HIGH"
        ELSE IF word \in {"WARN", "WARNING", "NOTICE"} THEN "MEDIUM"
        ELSE "LOW"]

\* C29: on each of the fifteen level words, in any letter case, severityFromLogLevel
\* and mapLogLevelToSeverity return the same severity, that of the table; with no
\* level the first returns null and the second MEDIUM, on any other word null and LOW;
\* and the level parseLogLine extracts is one of the fifteen words or none.
C29_LevelTablesAgree ==
    /\ Returned("severityFromLogLevel") =>
           /\ toUpperCase(req.logLevel) \in DOMAIN LevelTable =>
                  /\ resp = LevelTable[toUpperCase(req.logLevel)]
                  /\ mapLogLevelToSeverity(req.logLevel) = resp
           /\ req.logLevel = "" =>
                  /\ resp = "null"
                  /\ mapLogLevelToSeverity(req.logLevel) = "MEDIUM"
           /\ (req.logLevel # "" /\ toUpperCase(req.logLevel) \notin DOMAIN LevelTable) =>
                  /\ resp = "null"
                  /\ mapLogLevelToSeverity(req.logLevel) = "LOW"
    /\ (Returned("parseLogLine") /\ resp # TypeError) =>
           resp.logLevel \in DOMAIN LevelTable \cup {""}

\* C29 witness: a lower-case word of the LOW group, which the scorer's table reaches
\* by its default only.
C29_Witness ==
    /\ Returned("severityFromLogLevel")
    /\ req.logLevel = "verbose"
    /\ resp = "LOW"
    /\ mapLogLevelToSeverity(req.logLevel) = "LOW"

\* a list in another order
Permuted(items, p) == [k \in 1..Len(items) |-> items[p[k]]]

\* the entries of a list, as a set
Entries(items) == {items[k] : k \in 1..Len(items)}

\* how many times an entry stands in a list
Occurrences(items, x) == Cardinality({k \in 1..Len(items) : items[k] = x})

\* two summaries with the same aggregate fields: score, level, number of logs, the
\* breakdown as a map, the affected systems and the root causes as sets, and the list
\* of correlations
SameAggregates(a, b) ==
    /\ a.severityScore = b.severityScore
    /\ a.severity = b.severity
    /\ a.totalLogsAnalyzed = b.totalLogsAnalyzed
    /\ Entries(a.categoryBreakdown) = Entries(b.categoryBreakdown)
    /\ Len(a.categoryBreakdown) = Len(b.categoryBreakdown)
    /\ Entries(a.affectedSystems) = Entries(b.affectedSystems)
    /\ Len(a.affectedSystems) = Len(b.affectedSystems)
    /\ Entries(a.rootCauseChain) = Entries(b.rootCauseChain)
    /\ Len(a.rootCauseChain) = Len(b.rootCauseChain)
    /\ a.correlations = b.correlations

\* the timelines hold the same events the same number of times, and the events of
\* different timestamps stand in the same order
SameTimelineButTies(a, b) ==
    /\ Len(a.timeline) = Len(b.timeline)
    /\ \A e \in Entries(a.timeline) \cup Entries(b.timeline) :
           Occurrences(a.timeline, e) = Occurrences(b.timeline, e)
    /\ Field(a.timeline, "timestamp") = Field(b.timeline, "timestamp")

\* the distinct fixes of a list of explanations
DistinctFixes(explanations) ==
    UNION {Entries(explanations[k].recommendedFixes) : k \in 1..Len(explanations)}

\* the orderings of the lists of every length a request holds
OrderingsOfLength == [n \in 0..MaxOf(MaxOf(MaxExplanations, MaxMade), MaxReordered) |-> Orderings(n)]

\* the summary of the request's explanations taken in every other order
Reordered == {buildIncidentSummary(Permuted(req.explanations, p)) :
                 p \in OrderingsOfLength[Len(req.explanations)]}

\* C30 as stated: in whatever order the explanations are given, buildIncidentSummary
\* returns the same aggregate fields, and nothing but the order of timeline events of
\* one timestamp, the order inside the deduplicated lists, the choice of more than ten
\* fixes and the title changes; the summary text in particular is the same.
C30_Original ==
    Returned("buildIncidentSummary") =>
        \A other \in Reordered :
            /\ SameAggregates(resp, other)
            /\ SameTimelineButTies(resp, other)
            /\ Cardinality(DistinctFixes(req.explanations)) <= 10 =>
                   Entries(other.recommendedActions) = Entries(resp.recommendedActions)
            /\ other.summary = resp.summary

\* C30, amended: the same, but the summary text depends on the order too: it names the
\* affected systems in the order of the list, and is the same whenever that list is.
C30_OrderInsensitive ==
    Returned("buildIncidentSummary") =>
        \A other \in Reordered :
            /\ SameAggregates(resp, other)
            /\ SameTimelineButTies(resp, other)
            /\ Cardinality(DistinctFixes(req.explanations)) <= 10 =>
                   Entries(other.recommendedActions) = Entries(resp.recommendedActions)
            /\ other.affectedSystems = resp.affectedSystems => other.summary = resp.summary

\* C30 witness: three explanations of different scores and categories, two of them
\* correlated, whose summary in another order has another text, another title or
\* another timeline.
C30_Witness ==
    /\ Returned("buildIncidentSummary")
    /\ Len(req.explanations) = 3
    /\ Len(resp.affectedSystems) >= 2
    /\ resp.correlations # <<>>
    /\ req.explanations[1].severityScore < resp.severityScore
    /\ \E other \in Reordered :
           /\ other.summary # resp.summary
           /\ other.affectedSystems # resp.affectedSystems
           /\ other.rootCauseChain # resp.rootCauseChain
====
